---- MODULE Spec2Model ----
(***************************************************************************)
(* A model of Boulder's web front end (wfe/web-front-end.go): the generic  *)
(* per-route wrapper, the signed-request verifier verifyPOST, the error    *)
(* writer sendError and the resource handlers, as a state machine over the *)
(* Storage (SA) and Registration Authority (RA) collaborators' state and   *)
(* the anti-replay nonce registry.                                         *)
(*                                                                         *)
(* A handler is a sequence of atomic steps; every step holds at most one   *)
(* access to state shared between requests (one SA, RA or nonce-service    *)
(* call) together with the local computation that follows it, so that the  *)
(* interleavings of concurrent handlers are those of the program.          *)
(***************************************************************************)
EXTENDS Integers, Sequences, FiniteSets, TLC

(* ------------------------------ bounds -------------------------------- *)
\* nonces the nonce service hands out before issuance starts failing
MaxNonce == 2
\* registrations the Storage holds at most
MaxReg == 3
\* certificates the Storage holds at most
MaxCert == 3
\* authorizations the Storage holds at most
MaxAuthz == 3
\* the clock runs from 0 to MaxTime
MaxTime == 2

(* --------------------------- program constants ------------------------ *)
StatusRateLimited == 429
\* 0400 is an octal literal in Go
statusBadNonce == 256

unknownKey == "No registration exists matching provided key"
malformedJWS == "Unable to read/verify body"

(* ------------------------------ domains ------------------------------- *)
\* Account and certificate keys. kWeak is a key the key-quality policy rejects.
Keys == {"kWeak", "kA", "kB", "kC"}
NoKey == "none"
\* wfe.SubscriberAgreementURL and an older version of the agreement
SubscriberAgreementURL == "cur"
Agreements == {"", "cur", "old"}
\* core.AcmeResource values
ResourceNewReg == "new-reg"
ResourceNewAuthz == "new-authz"
ResourceNewCert == "new-cert"
ResourceRegistration == "reg"
ResourceChallenge == "challenge"
ResourceRevokeCert == "revoke-cert"
Resources ==
  {ResourceNewReg, ResourceNewAuthz, ResourceNewCert, ResourceRegistration,
   ResourceChallenge, ResourceRevokeCert}

\* the sentinel registration verifyPOST starts from (reg := core.Registration{ID: 0})
ZeroReg == [ID |-> 0, Key |-> NoKey, Agreement |-> ""]
NoExpiry == -1
ZeroAuthz == [ID |-> 0, RegistrationID |-> 0, Expires |-> NoExpiry, Challenges |-> <<>>]
ZeroChallenge == [ID |-> 0, AccountKey |-> NoKey, Status |-> "", URI |-> <<0, 0>>]
ZeroCert ==
  [Serial |-> 0, DER |-> 0, RegistrationID |-> 0, PublicKey |-> NoKey, Status |-> ""]

VARIABLES
  nonces,    \* nonce service: the nonces that are currently valid
  issued,    \* nonce service: how many nonces have been issued (nonces are 1..issued)
  passed,    \* history: per nonce, how many requests passed the verifier's nonce check with it
  regs,      \* Storage: registrations, regs[i].ID = i
  certs,     \* Storage: certificates, certs[i].Serial = i, with their status
  authzs,    \* Storage: authorizations, authzs[i].ID = i
  now,       \* wfe.clk.Now()
  pc,        \* per request slot: the step the handler is at
  req,       \* per request slot: the request being served
  loc,       \* per request slot: the handler's local variables
  resp,      \* per request slot: the http.ResponseWriter
  logEvent,  \* per request slot: the requestEvent
  calls,     \* history, per request slot: the SA and RA calls made for the request, in order
  audit,     \* history, per request slot: the audit-log entries written for the request
  allowOrigins \* wfe.AllowOrigins

vars ==
  <<nonces, issued, passed, regs, certs, authzs, now, pc, req, loc, resp, logEvent,
    calls, audit, allowOrigins>>

(* ------------------------ http.ResponseWriter ------------------------- *)
\* A header is <<name, value, number>>; the number carries an ID or a nonce.
NoBody ==
  [kind |-> "none", ptype |-> "", msg |-> "", detail |-> FALSE, reg |-> ZeroReg,
   authz |-> ZeroAuthz, chall |-> ZeroChallenge, der |-> 0]
\* status 0: the status line and headers have not been written yet. sent is the
\* header map as it was when they were: later changes to hdr reach no client.
NewWriter ==
  [hdr |-> {}, status |-> 0, sent |-> {}, body |-> NoBody, bodyless |-> FALSE]

HeaderSet(w, name, value, n) ==
  [w EXCEPT !.hdr = {h \in w.hdr : h[1] # name} \cup {<<name, value, n>>}]

HeaderAdd(w, name, value, n) ==
  [w EXCEPT !.hdr = w.hdr \cup {<<name, value, n>>}]

WriteHeader(w, code) ==
  IF w.status # 0 THEN w ELSE [w EXCEPT !.status = code, !.sent = w.hdr]

\* Variant of Write: the body is written on a BodylessResponseWriter too.
WriteAlways(w, b) == [WriteHeader(w, 200) EXCEPT !.body = b]

\* Write sends the headers with 200 if they have not been sent. On a
\* BodylessResponseWriter it does nothing at all.
Write(w, b) ==
  IF w.bodyless THEN w ELSE [WriteHeader(w, 200) EXCEPT !.body = b]

(* ------------------------- statusCodeFromError ------------------------ *)
CoreErrors ==
  {"MalformedRequestError", "NotSupportedError", "SyntaxError", "UnauthorizedError",
   "NotFoundError", "LengthRequiredError", "SignatureValidationError",
   "InternalServerError", "RateLimitedError", "BadNonceError"}

\* err is the name of the value's dynamic type; anything that is not one of
\* the listed core error types takes the default branch.
statusCodeFromError(err) ==
  CASE err = "MalformedRequestError" -> 400
    [] err = "NotSupportedError" -> 501
    [] err = "SyntaxError" -> 400
    [] err = "UnauthorizedError" -> 403
    [] err = "NotFoundError" -> 404
    [] err = "LengthRequiredError" -> 411
    [] err = "SignatureValidationError" -> 400
    [] err = "InternalServerError" -> 500
    [] err = "RateLimitedError" -> StatusRateLimited
    [] err = "BadNonceError" -> statusBadNonce
    [] OTHER -> 500

(* ------------------------------ sendError ----------------------------- *)
ProblemType(code) ==
  CASE code \in {412, 403} -> "unauthorized"
    [] code \in {409, 405, 404, 400, 411} -> "malformed"
    [] code = StatusRateLimited -> "rateLimited"
    [] code = statusBadNonce -> "badNonce"
    [] OTHER -> "serverInternal"

\* The state of one request as a handler threads it: the writer, the
\* requestEvent and the audit entries written so far.
Ctx(w, ev, au) == [w |-> w, ev |-> ev, au |-> au]

AddError(ev, msg) == [ev EXCEPT !.Errors = Append(@, msg)]

cAddError(c, msg) == [c EXCEPT !.ev = AddError(c.ev, msg)]

\* Variant of sendError: the detail is added to the message of every problem
\* that is not server-internal.
sendErrorAnyDetail(c, msg, detail, code) ==
  LET ptype == ProblemType(code)
      code2 == IF code = statusBadNonce THEN 400 ELSE code
      ev2 == AddError(c.ev, msg)
      au2 == IF ptype = "serverInternal" THEN Append(c.au, msg) ELSE c.au
      doc == [NoBody EXCEPT !.kind = "problem", !.ptype = ptype, !.msg = msg,
                             !.detail = (ptype # "serverInternal")]
      w1 == HeaderSet(c.w, "Content-Type", "application/problem+json", 0)
      w2 == WriteHeader(w1, code2)
      w3 == Write(w2, doc)
  IN Ctx(w3, ev2, au2)

sendError(c, msg, detail, code) ==
  LET ptype == ProblemType(code)
      code2 == IF code = statusBadNonce THEN 400 ELSE code
      ev2 == AddError(c.ev, msg)
      au2 == IF ptype = "serverInternal" THEN Append(c.au, msg) ELSE c.au
      withDetail == ptype # "serverInternal" /\ statusCodeFromError(detail) # 500
      doc == [NoBody EXCEPT !.kind = "problem", !.ptype = ptype, !.msg = msg,
                             !.detail = withDetail]
      w1 == HeaderSet(c.w, "Content-Type", "application/problem+json", 0)
      w2 == WriteHeader(w1, code2)
      w3 == Write(w2, doc)
  IN Ctx(w3, ev2, au2)

(* ---------------------- core.NonceService (interface) ----------------- *)
\* Valid(nonce) reports whether the nonce is currently valid and, when it is,
\* consumes it in the same atomic step.
NonceValid(valid, n) == n \in valid

NonceConsume(valid, n) == valid \ {n}

(* --------------------- the collaborators' policies -------------------- *)
\* core.GoodKey: the key-quality policy
GoodKey(k) == k # "kWeak"

\* checkAlgorithm: is the JWS's signature algorithm compatible with the key
checkAlgorithm(key, r) == r.algOK

\* parsedJws.Verify(key): the signature was made by the holder of r.jwk
JWSVerify(r, key) == r.sigOK /\ key = r.jwk

(* ----------------------------- Storage (SA) --------------------------- *)
RegIDs == 1..MaxReg

SeqRange(s) == {s[i] : i \in 1..Len(s)}

LookupResult(err, reg) == [err |-> err, reg |-> reg]

\* the lookup was not made
NoLookup == LookupResult("skipped", ZeroReg)

\* SA.GetRegistrationByKey: the registration, "no such registration", or a
\* failure of the lookup itself.
GetRegistrationByKey(rs, k) ==
  LET found == {r \in SeqRange(rs) : r.Key = k}
  IN {LookupResult("nil", r) : r \in found}
     \cup (IF found = {} THEN {LookupResult("NoSuchRegistrationError", ZeroReg)} ELSE {})
     \cup {LookupResult("InternalServerError", ZeroReg)}

(* ------------------------------ verifyPOST ---------------------------- *)
\* What verifyPOST returns and leaves behind: err ("nil" on success), the
\* place it returned at, the verification key, the registration, the nonce
\* service's valid set and the requestEvent afterwards, and whether the
\* account lookup was made.
VResult(err, step, key, reg, valid, ev, sa) ==
  [err |-> err, step |-> step, key |-> key, reg |-> reg, valid |-> valid, ev |-> ev,
   sa |-> sa]

\* Variant of verifyPOSTPayload: a nonce is taken as it comes, the nonce
\* service is not asked.
verifyPOSTPayloadUnchecked(ev, r, resource, key, reg, valid) ==
  IF r.nonce = 0 THEN
    VResult("BadNonceError", "nononce", NoKey, reg, valid,
            AddError(ev, "JWS is missing an anti-replay nonce"), TRUE)
  ELSE IF r.payload = "notjson" THEN
    VResult("SignatureValidationError", "payload", NoKey, reg, valid,
            AddError(ev, "unable to JSON parse resource from JWS payload"), TRUE)
  ELSE IF r.resource = "" THEN
    VResult("MalformedRequestError", "noresource", NoKey, reg, valid,
            AddError(ev, "JWS request payload does not specifiy a resource"), TRUE)
  ELSE IF resource # r.resource THEN
    VResult("MalformedRequestError", "resource", NoKey, reg, valid,
            AddError(ev, "JWS request payload does not match resource"), TRUE)
  ELSE
    VResult("nil", "ok", key, reg, valid, ev, TRUE)

\* Variant of verifyPOSTPayload: the payload's resource is not compared with
\* the endpoint's.
verifyPOSTPayloadAnyResource(ev, r, resource, key, reg, valid) ==
  IF r.nonce = 0 THEN
    VResult("BadNonceError", "nononce", NoKey, reg, valid,
            AddError(ev, "JWS is missing an anti-replay nonce"), TRUE)
  ELSE IF ~NonceValid(valid, r.nonce) THEN
    VResult("BadNonceError", "badnonce", NoKey, reg, valid,
            AddError(ev, "JWS has an invalid anti-replay nonce"), TRUE)
  ELSE IF r.payload = "notjson" THEN
    VResult("SignatureValidationError", "payload", NoKey, reg,
            NonceConsume(valid, r.nonce),
            AddError(ev, "unable to JSON parse resource from JWS payload"), TRUE)
  ELSE
    VResult("nil", "ok", key, reg, NonceConsume(valid, r.nonce), ev, TRUE)

\* Variant of verifyPOSTPayload: the nonce is taken out of the valid set only
\* when the payload is bound to the endpoint's resource.
verifyPOSTPayloadConsumeLast(ev, r, resource, key, reg, valid) ==
  IF r.nonce = 0 THEN
    VResult("BadNonceError", "nononce", NoKey, reg, valid,
            AddError(ev, "JWS is missing an anti-replay nonce"), TRUE)
  ELSE IF ~NonceValid(valid, r.nonce) THEN
    VResult("BadNonceError", "badnonce", NoKey, reg, valid,
            AddError(ev, "JWS has an invalid anti-replay nonce"), TRUE)
  ELSE IF r.payload = "notjson" THEN
    VResult("SignatureValidationError", "payload", NoKey, reg, valid,
            AddError(ev, "unable to JSON parse resource from JWS payload"), TRUE)
  ELSE IF r.resource = "" THEN
    VResult("MalformedRequestError", "noresource", NoKey, reg, valid,
            AddError(ev, "JWS request payload does not specifiy a resource"), TRUE)
  ELSE IF resource # r.resource THEN
    VResult("MalformedRequestError", "resource", NoKey, reg, valid,
            AddError(ev, "JWS request payload does not match resource"), TRUE)
  ELSE
    VResult("nil", "ok", key, reg, NonceConsume(valid, r.nonce), ev, TRUE)

\* verifyPOST from the nonce check on: valid is the nonce service's valid set
\* when nonceService.Valid is called.
verifyPOSTPayload(ev, r, resource, key, reg, valid) ==
  IF r.nonce = 0 THEN
    VResult("BadNonceError", "nononce", NoKey, reg, valid,
            AddError(ev, "JWS is missing an anti-replay nonce"), TRUE)
  ELSE IF ~NonceValid(valid, r.nonce) THEN
    VResult("BadNonceError", "badnonce", NoKey, reg, valid,
            AddError(ev, "JWS has an invalid anti-replay nonce"), TRUE)
  ELSE
    LET valid1 == NonceConsume(valid, r.nonce)
    IN
    IF r.payload = "notjson" THEN
      VResult("SignatureValidationError", "payload", NoKey, reg, valid1,
              AddError(ev, "unable to JSON parse resource from JWS payload"), TRUE)
    ELSE IF r.resource = "" THEN
      VResult("MalformedRequestError", "noresource", NoKey, reg, valid1,
              AddError(ev, "JWS request payload does not specifiy a resource"), TRUE)
    ELSE IF resource # r.resource THEN
      VResult("MalformedRequestError", "resource", NoKey, reg, valid1,
              AddError(ev, "JWS request payload does not match resource"), TRUE)
    ELSE
      VResult("nil", "ok", key, reg, valid1, ev, TRUE)

\* Variant of verifyPOSTKey: the nonce is handed to the nonce service before the
\* signature is verified.
verifyPOSTKeyNonceFirst(ev, r, regCheck, resource, lk, valid) ==
  LET reg == lk.reg
      noSuch == lk.err = "NoSuchRegistrationError" /\ ~regCheck
      key == IF noSuch THEN r.jwk ELSE reg.Key
      ev1 == IF noSuch THEN ev ELSE [ev EXCEPT !.Requester = reg.ID]
  IN
  IF noSuch /\ ~GoodKey(r.jwk) THEN
    VResult("MalformedRequestError", "goodkey", NoKey, reg, valid,
            AddError(ev, "JWK in request was rejected by GoodKey"), TRUE)
  ELSE IF ~noSuch /\ lk.err # "nil" THEN
    VResult(lk.err, "lookup", NoKey, reg, valid,
            AddError(ev, "unable to fetch registration by the given JWK"), TRUE)
  ELSE IF ~checkAlgorithm(key, r) THEN
    VResult("SignatureValidationError", "alg", NoKey, reg, valid, ev1, TRUE)
  ELSE IF r.nonce = 0 THEN
    VResult("BadNonceError", "nononce", NoKey, reg, valid,
            AddError(ev1, "JWS is missing an anti-replay nonce"), TRUE)
  ELSE IF ~NonceValid(valid, r.nonce) THEN
    VResult("BadNonceError", "badnonce", NoKey, reg, valid,
            AddError(ev1, "JWS has an invalid anti-replay nonce"), TRUE)
  ELSE IF ~JWSVerify(r, key) THEN
    VResult("SignatureValidationError", "sig", NoKey, reg, NonceConsume(valid, r.nonce),
            AddError(ev1, "verification of JWS with the JWK failed"), TRUE)
  ELSE verifyPOSTPayload(ev1, r, resource, key, reg, valid)

\* Variant of verifyPOSTKey: a key without a registration is verified against
\* itself whatever regCheck says.
verifyPOSTKeyNoRegCheck(ev, r, regCheck, resource, lk, valid) ==
  LET reg == lk.reg
      noSuch == lk.err = "NoSuchRegistrationError"
      key == IF noSuch THEN r.jwk ELSE reg.Key
      ev1 == IF noSuch THEN ev ELSE [ev EXCEPT !.Requester = reg.ID]
  IN
  IF noSuch /\ ~GoodKey(r.jwk) THEN
    VResult("MalformedRequestError", "goodkey", NoKey, reg, valid,
            AddError(ev, "JWK in request was rejected by GoodKey"), TRUE)
  ELSE IF ~noSuch /\ lk.err # "nil" THEN
    VResult(lk.err, "lookup", NoKey, reg, valid,
            AddError(ev, "unable to fetch registration by the given JWK"), TRUE)
  ELSE IF ~checkAlgorithm(key, r) THEN
    VResult("SignatureValidationError", "alg", NoKey, reg, valid, ev1, TRUE)
  ELSE IF ~JWSVerify(r, key) THEN
    VResult("SignatureValidationError", "sig", NoKey, reg, valid,
            AddError(ev1, "verification of JWS with the JWK failed"), TRUE)
  ELSE verifyPOSTPayload(ev1, r, resource, key, reg, valid)

\* Variant of verifyPOSTKey: the key-quality policy is not applied.
verifyPOSTKeyAnyKey(ev, r, regCheck, resource, lk, valid) ==
  LET reg == lk.reg
      noSuch == lk.err = "NoSuchRegistrationError" /\ ~regCheck
      key == IF noSuch THEN r.jwk ELSE reg.Key
      ev1 == IF noSuch THEN ev ELSE [ev EXCEPT !.Requester = reg.ID]
  IN
  IF ~noSuch /\ lk.err # "nil" THEN
    VResult(lk.err, "lookup", NoKey, reg, valid,
            AddError(ev, "unable to fetch registration by the given JWK"), TRUE)
  ELSE IF ~checkAlgorithm(key, r) THEN
    VResult("SignatureValidationError", "alg", NoKey, reg, valid, ev1, TRUE)
  ELSE IF ~JWSVerify(r, key) THEN
    VResult("SignatureValidationError", "sig", NoKey, reg, valid,
            AddError(ev1, "verification of JWS with the JWK failed"), TRUE)
  ELSE verifyPOSTPayload(ev1, r, resource, key, reg, valid)

\* verifyPOST from the answer lk of SA.GetRegistrationByKey on: the choice of
\* the verification key, the algorithm check and the signature check.
verifyPOSTKey(ev, r, regCheck, resource, lk, valid) ==
  LET reg == lk.reg
      noSuch == lk.err = "NoSuchRegistrationError" /\ ~regCheck
      key == IF noSuch THEN r.jwk ELSE reg.Key
      ev1 == IF noSuch THEN ev ELSE [ev EXCEPT !.Requester = reg.ID]
  IN
  IF noSuch /\ ~GoodKey(r.jwk) THEN
    VResult("MalformedRequestError", "goodkey", NoKey, reg, valid,
            AddError(ev, "JWK in request was rejected by GoodKey"), TRUE)
  ELSE IF ~noSuch /\ lk.err # "nil" THEN
    VResult(lk.err, "lookup", NoKey, reg, valid,
            AddError(ev, "unable to fetch registration by the given JWK"), TRUE)
  ELSE IF ~checkAlgorithm(key, r) THEN
    VResult("SignatureValidationError", "alg", NoKey, reg, valid, ev1, TRUE)
  ELSE IF ~JWSVerify(r, key) THEN
    VResult("SignatureValidationError", "sig", NoKey, reg, valid,
            AddError(ev1, "verification of JWS with the JWK failed"), TRUE)
  ELSE verifyPOSTPayload(ev1, r, resource, key, reg, valid)

\* Variant of verifyPOST: the signatures of the envelope are not counted.
verifyPOSTAnyCount(ev, r, regCheck, resource, lk, valid) ==
  IF ~r.cl THEN
    VResult("LengthRequiredError", "length", NoKey, ZeroReg, valid,
            AddError(ev, "missing Content-Length header on POST"), FALSE)
  ELSE IF r.body = "nil" THEN
    VResult("MalformedRequestError", "nobody", NoKey, ZeroReg, valid,
            AddError(ev, "no body on POST"), FALSE)
  ELSE IF r.body = "unreadable" THEN
    VResult("InternalServerError", "read", NoKey, ZeroReg, valid,
            AddError(ev, "unable to read request body"), FALSE)
  ELSE IF r.body = "garbage" THEN
    VResult("SignatureValidationError", "parse", NoKey, ZeroReg, valid,
            AddError(ev, "could not JSON parse body into JWS"), FALSE)
  ELSE IF r.jwk = NoKey THEN
    VResult("SignatureValidationError", "nojwk", NoKey, ZeroReg, valid,
            AddError(ev, "no JWK in JWS signature header in POST body"), FALSE)
  ELSE verifyPOSTKey(ev, r, regCheck, resource, lk, valid)

\* Variant of verifyPOST: a Content-Length header is not asked for.
verifyPOSTAnyLength(ev, r, regCheck, resource, lk, valid) ==
  IF r.body = "nil" THEN
    VResult("MalformedRequestError", "nobody", NoKey, ZeroReg, valid,
            AddError(ev, "no body on POST"), FALSE)
  ELSE IF r.body = "unreadable" THEN
    VResult("InternalServerError", "read", NoKey, ZeroReg, valid,
            AddError(ev, "unable to read request body"), FALSE)
  ELSE IF r.body = "garbage" THEN
    VResult("SignatureValidationError", "parse", NoKey, ZeroReg, valid,
            AddError(ev, "could not JSON parse body into JWS"), FALSE)
  ELSE IF r.sigs > 1 THEN
    VResult("SignatureValidationError", "toomany", NoKey, ZeroReg, valid,
            AddError(ev, "too many signatures in POST body"), FALSE)
  ELSE IF r.sigs = 0 THEN
    VResult("SignatureValidationError", "nosig", NoKey, ZeroReg, valid,
            AddError(ev, "no signatures in POST body"), FALSE)
  ELSE IF r.jwk = NoKey THEN
    VResult("SignatureValidationError", "nojwk", NoKey, ZeroReg, valid,
            AddError(ev, "no JWK in JWS signature header in POST body"), FALSE)
  ELSE verifyPOSTKey(ev, r, regCheck, resource, lk, valid)

\* lk is what SA.GetRegistrationByKey answers if it is called, valid the
\* nonce service's valid set when nonceService.Valid is called.
verifyPOST(ev, r, regCheck, resource, lk, valid) ==
  IF ~r.cl THEN
    VResult("LengthRequiredError", "length", NoKey, ZeroReg, valid,
            AddError(ev, "missing Content-Length header on POST"), FALSE)
  ELSE IF r.body = "nil" THEN
    VResult("MalformedRequestError", "nobody", NoKey, ZeroReg, valid,
            AddError(ev, "no body on POST"), FALSE)
  ELSE IF r.body = "unreadable" THEN
    VResult("InternalServerError", "read", NoKey, ZeroReg, valid,
            AddError(ev, "unable to read request body"), FALSE)
  ELSE IF r.body = "garbage" THEN
    VResult("SignatureValidationError", "parse", NoKey, ZeroReg, valid,
            AddError(ev, "could not JSON parse body into JWS"), FALSE)
  ELSE IF r.sigs > 1 THEN
    VResult("SignatureValidationError", "toomany", NoKey, ZeroReg, valid,
            AddError(ev, "too many signatures in POST body"), FALSE)
  ELSE IF r.sigs = 0 THEN
    VResult("SignatureValidationError", "nosig", NoKey, ZeroReg, valid,
            AddError(ev, "no signatures in POST body"), FALSE)
  ELSE IF r.jwk = NoKey THEN
    VResult("SignatureValidationError", "nojwk", NoKey, ZeroReg, valid,
            AddError(ev, "no JWK in JWS signature header in POST body"), FALSE)
  ELSE verifyPOSTKey(ev, r, regCheck, resource, lk, valid)

(* ------------------------------ requests ------------------------------ *)
Procs == {1, 2}

PostRoutes == {"new-reg", "new-authz", "new-cert", "reg", "challenge", "revoke-cert"}

\* the resource each POST handler passes to verifyPOST
ResourceOf(route) ==
  CASE route = "new-reg" -> ResourceNewReg
    [] route = "new-authz" -> ResourceNewAuthz
    [] route = "new-cert" -> ResourceNewCert
    [] route = "reg" -> ResourceRegistration
    [] route = "challenge" -> ResourceChallenge
    [] route = "revoke-cert" -> ResourceRevokeCert
    [] OTHER -> ""

\* the regCheck argument each POST handler passes to verifyPOST
RegCheck(route) == route \notin {"new-reg", "revoke-cert"}

\* A request. cl: a Content-Length header is present. body: "nil", "unreadable",
\* "garbage" (does not parse as a JWS) or "jws". sigs, jwk, algOK, sigOK, nonce:
\* the JWS's signature count, embedded key, algorithm compatibility, signature
\* validity and nonce (0: none). payload, resource: the signed payload.
\* pathOK, id, cid: the IDs of the URL path. The rest is the payload's content.
BaseReq(route, method) ==
  [route |-> route, method |-> method, origin |-> "", acrm |-> "",
   cl |-> TRUE, body |-> "jws", sigs |-> 1, jwk |-> "kA", algOK |-> TRUE,
   sigOK |-> TRUE, nonce |-> 0, payload |-> "json", resource |-> ResourceOf(route),
   pathOK |-> TRUE, id |-> 0, cid |-> 0,
   agreement |-> "", updKey |-> NoKey, bodyOK |-> TRUE, addrOK |-> TRUE,
   csrKey |-> NoKey, der |-> 0]

NoReq == BaseReq("", "")

NonceVals == 0..MaxNonce

WithNonce(S) == {[x EXCEPT !.nonce = n] : x \in S, n \in NonceVals}

WithKey(S) == {[x EXCEPT !.jwk = k] : x \in S, k \in Keys}

WrongResource(route) == IF route = "new-reg" THEN ResourceRevokeCert ELSE ResourceNewReg

\* The requests that differ from b in how their envelope is broken.
BrokenEnvelopes(b) ==
  LET structural ==
        {[b EXCEPT !.cl = FALSE], [b EXCEPT !.cl = FALSE, !.body = "unreadable"],
         [b EXCEPT !.body = "nil"],
         [b EXCEPT !.body = "unreadable"], [b EXCEPT !.body = "garbage"],
         [b EXCEPT !.sigs = 0], [b EXCEPT !.sigs = 2], [b EXCEPT !.jwk = NoKey]}
      crypto ==
        {[x EXCEPT !.algOK = FALSE] : x \in WithKey({b})}
        \cup {[x EXCEPT !.sigOK = FALSE] : x \in WithKey({b})}
      payloads ==
        {[x EXCEPT !.payload = "notjson"] : x \in WithKey({b})}
        \cup {[x EXCEPT !.resource = ""] : x \in WithKey({b})}
        \cup {[x EXCEPT !.resource = WrongResource(b.route)] : x \in WithKey({b})}
  IN WithNonce(structural \cup crypto \cup payloads)

\* The well-formed signed requests with the contents of S, by every key and nonce.
Signed(S) == WithNonce(WithKey(S))

(* --------------------------- the route table -------------------------- *)
\* wfe.Handler: the methods each route is registered with
Methods(route) ==
  CASE route \in {"new-reg", "new-authz", "new-cert", "reg", "revoke-cert"} -> <<"POST">>
    [] route = "challenge" -> <<"GET", "POST">>
    [] OTHER -> <<"GET">>

\* HandleFunc: HEAD is allowed wherever GET is
methodsList(route) ==
  LET m == Methods(route)
  IN IF "GET" \in SeqRange(m) /\ "HEAD" \notin SeqRange(m) THEN Append(m, "HEAD") ELSE m

methodsMap(route) == SeqRange(methodsList(route))

\* strings.Join(methods, ", ")
RECURSIVE Join(_)
Join(m) ==
  IF Len(m) = 0 THEN ""
  ELSE IF Len(m) = 1 THEN m[1]
  ELSE m[1] \o ", " \o Join(Tail(m))

methodsStr(route) == Join(methodsList(route))

NewEvent == [Errors |-> <<>>, Requester |-> 0]

\* SA.GetCertificateStatus has not been called
NoStatus == [err |-> "skipped", status |-> ""]

\* a handler's locals; step, err, verr and touched record what verifyPOST did
ZeroLoc ==
  [lk |-> NoLookup, key |-> NoKey, reg |-> ZeroReg, authz |-> ZeroAuthz, idx |-> 0,
   cert |-> ZeroCert, certStatus |-> NoStatus, step |-> "", err |-> "", verr |-> 0,
   touched |-> FALSE]

(* ------------------------- CORS and OPTIONS --------------------------- *)
SetMin(S) == CHOOSE x \in S : \A y \in S : x <= y

setCORSHeaders(w, r, allowMethods, ao) ==
  IF r.origin = "" THEN w
  ELSE
    LET hits == {i \in 1..Len(ao) : ao[i] = "*" \/ ao[i] = r.origin}
    IN
    IF hits = {} THEN w
    ELSE
      LET first == ao[SetMin(hits)]
          w1 == IF first = "*"
                THEN HeaderSet(w, "Access-Control-Allow-Origin", "*", 0)
                ELSE HeaderSet(HeaderSet(w, "Vary", "Origin", 0),
                               "Access-Control-Allow-Origin", first, 0)
          w2 == IF allowMethods # ""
                THEN HeaderSet(w1, "Access-Control-Allow-Methods", allowMethods, 0)
                ELSE w1
          w3 == HeaderSet(w2, "Access-Control-Expose-Headers", "Link, Replay-Nonce", 0)
      IN HeaderSet(w3, "Access-Control-Max-Age", "86400", 0)

\* Variant of Options: the requested method is not looked at.
OptionsAnyMethod(w, r, mStr, mMap, ao) ==
  setCORSHeaders(HeaderSet(w, "Allow", mStr, 0), r, mStr, ao)

Options(w, r, mStr, mMap, ao) ==
  LET w1 == HeaderSet(w, "Allow", mStr, 0)
      reqMethod == IF r.acrm = "" THEN "GET" ELSE r.acrm
  IN IF reqMethod \in mMap THEN setCORSHeaders(w1, r, mStr, ao) ELSE w1

(* ------------------ handlers that touch no shared state --------------- *)
addNoCacheHeader(w) == HeaderAdd(w, "Cache-Control", "public, max-age=0, no-cache", 0)

addCacheHeader(w) == HeaderAdd(w, "Cache-Control", "public, max-age", 0)

Directory(c) ==
  [c EXCEPT !.w = Write(HeaderSet(c.w, "Content-Type", "application/json", 0),
                        [NoBody EXCEPT !.kind = "directory"])]

Terms(c) ==
  [c EXCEPT !.w = WriteHeader(HeaderSet(c.w, "Location", "terms", 0), 302)]

Issuer(c) ==
  LET w1 == HeaderSet(addCacheHeader(c.w), "Content-Type", "application/pkix-cert", 0)
  IN [c EXCEPT !.w = Write(WriteHeader(w1, 200), [NoBody EXCEPT !.kind = "issuer"])]

BuildID(c) ==
  LET w1 == HeaderSet(c.w, "Content-Type", "text/plain", 0)
  IN [c EXCEPT !.w = Write(WriteHeader(w1, 200), [NoBody EXCEPT !.kind = "build"])]

(* ------------------------------ HandleFunc ---------------------------- *)
\* a handler's result: the request's context and the step to go on with
Step(c, next) == [c |-> c, next |-> next]

\* where the wrapped handler h of a route starts
CallHandler(c, r) ==
  CASE r.route \in {"new-reg", "new-authz", "new-cert", "reg", "revoke-cert"} ->
         Step(c, "lookup")
    [] r.route \in {"challenge", "authz", "cert"} -> Step(c, r.route)
    [] r.route = "directory" -> Step(Directory(c), "done")
    [] r.route = "terms" -> Step(Terms(c), "done")
    [] r.route = "issuer" -> Step(Issuer(c), "done")
    [] OTHER -> Step(BuildID(c), "done")

\* Variant of HandleFunc: the method is not looked up in the route's methods.
HandleFuncAnyMethod(c, r, ao) ==
  LET w1 == IF r.method = "HEAD" THEN [c.w EXCEPT !.bodyless = TRUE] ELSE c.w
  IN
  IF r.method = "OPTIONS" THEN
    Step([c EXCEPT !.w = Options(c.w, r, methodsStr(r.route), methodsMap(r.route), ao)],
         "done")
  ELSE
    CallHandler([c EXCEPT !.w = setCORSHeaders(w1, r, "", ao)], r)

\* the wrapper, after the Replay-Nonce header has been set
HandleFunc(c, r, ao) ==
  LET w1 == IF r.method = "HEAD" THEN [c.w EXCEPT !.bodyless = TRUE] ELSE c.w
  IN
  IF r.method = "OPTIONS" THEN
    Step([c EXCEPT !.w = Options(c.w, r, methodsStr(r.route), methodsMap(r.route), ao)],
         "done")
  ELSE IF r.method \notin methodsMap(r.route) THEN
    Step(sendError([c EXCEPT !.w = HeaderSet(w1, "Allow", methodsStr(r.route), 0)],
                   "Method not allowed", "string", 405),
         "done")
  ELSE
    CallHandler([c EXCEPT !.w = setCORSHeaders(w1, r, "", ao)], r)

(* --------------------------- request slots ---------------------------- *)
\* net/http sends status 200 and the headers when a handler returns without
\* having written them.
Complete(w) == WriteHeader(w, 200)

\* the slot's context
Cx(p) == Ctx(resp[p], logEvent[p], audit[p])

\* the handler of slot p goes on at s.next with context s.c
Goto(p, s) ==
  /\ pc' = [pc EXCEPT ![p] = s.next]
  /\ resp' = [resp EXCEPT ![p] = IF s.next = "done" THEN Complete(s.c.w) ELSE s.c.w]
  /\ logEvent' = [logEvent EXCEPT ![p] = s.c.ev]
  /\ audit' = [audit EXCEPT ![p] = s.c.au]

Call(name, key, n) == <<name, key, n>>

CallNames(p) == {calls[p][i][1] : i \in 1..Len(calls[p])}

\* Variant of Receive: the Replay-Nonce header is set on the responses to
\* POST requests only.
ReceivePostOnly(p, R) ==
  /\ pc[p] = "idle"
  /\ \E r \in R, ok \in BOOLEAN :
       /\ ok => issued < MaxNonce
       /\ issued' = IF ok THEN issued + 1 ELSE issued
       /\ nonces' = IF ok THEN nonces \cup {issued + 1} ELSE nonces
       /\ req' = [req EXCEPT ![p] = r]
       /\ LET w0 == IF ok /\ r.method = "POST"
                    THEN HeaderSet(NewWriter, "Replay-Nonce", "", issued + 1)
                    ELSE NewWriter
          IN Goto(p, HandleFunc(Ctx(w0, NewEvent, <<>>), r, allowOrigins))
  /\ UNCHANGED <<passed, regs, certs, authzs, now, loc, calls, allowOrigins>>

\* A request arrives on a wrapped route: the wrapper asks the nonce service
\* for a nonce (which may fail), then dispatches on the method.
Receive(p, R) ==
  /\ pc[p] = "idle"
  /\ \E r \in R, ok \in BOOLEAN :
       /\ ok => issued < MaxNonce
       /\ issued' = IF ok THEN issued + 1 ELSE issued
       /\ nonces' = IF ok THEN nonces \cup {issued + 1} ELSE nonces
       /\ req' = [req EXCEPT ![p] = r]
       /\ LET w0 == IF ok THEN HeaderSet(NewWriter, "Replay-Nonce", "", issued + 1)
                    ELSE NewWriter
          IN Goto(p, HandleFunc(Ctx(w0, NewEvent, <<>>), r, allowOrigins))
  /\ UNCHANGED <<passed, regs, certs, authzs, now, loc, calls, allowOrigins>>

(* -------------------------------- Index ------------------------------- *)
\* Variant of Index: the method is looked at before the path.
IndexMethodFirst(c, r) ==
  IF r.method # "GET" THEN
    [cAddError(c, "Bad method") EXCEPT !.w = WriteHeader(HeaderSet(c.w, "Allow", "GET", 0), 405)]
  ELSE IF r.route # "/" THEN
    LET w1 == HeaderSet(c.w, "Content-Type", "text/plain; charset=utf-8", 0)
        w2 == HeaderSet(w1, "X-Content-Type-Options", "nosniff", 0)
        w3 == Write(WriteHeader(w2, 404),
                    [NoBody EXCEPT !.kind = "text", !.msg = "404 page not found"])
    IN [cAddError(c, "Resource not found") EXCEPT
          !.w = HeaderSet(w3, "Content-Type", "application/problem+json", 0)]
  ELSE
    LET w1 == HeaderSet(c.w, "Content-Type", "text/html", 0)
    IN [c EXCEPT !.w = addCacheHeader(Write(w1, [NoBody EXCEPT !.kind = "index"]))]

\* The handler of the pattern "/", which every path matches that no other
\* pattern does; r.route is the path. http.NotFound writes 404 with a text
\* body, so the Content-Type set after it is not sent; the Cache-Control
\* header of the page is added after the page has been written.
Index(c, r) ==
  IF r.route # "/" THEN
    LET w1 == HeaderSet(c.w, "Content-Type", "text/plain; charset=utf-8", 0)
        w2 == HeaderSet(w1, "X-Content-Type-Options", "nosniff", 0)
        w3 == Write(WriteHeader(w2, 404),
                    [NoBody EXCEPT !.kind = "text", !.msg = "404 page not found"])
    IN [cAddError(c, "Resource not found") EXCEPT
          !.w = HeaderSet(w3, "Content-Type", "application/problem+json", 0)]
  ELSE IF r.method # "GET" THEN
    [cAddError(c, "Bad method") EXCEPT !.w = WriteHeader(HeaderSet(c.w, "Allow", "GET", 0), 405)]
  ELSE
    LET w1 == HeaderSet(c.w, "Content-Type", "text/html", 0)
    IN [c EXCEPT !.w = addCacheHeader(Write(w1, [NoBody EXCEPT !.kind = "index"]))]

\* A request arrives whose path matches none of the patterns registered
\* through HandleFunc: Index is called directly, without the wrapper.
ReceiveRoot(p, R) ==
  /\ pc[p] = "idle"
  /\ \E r \in R :
       /\ req' = [req EXCEPT ![p] = r]
       /\ Goto(p, Step(Index(Ctx(NewWriter, NewEvent, <<>>), r), "done"))
  /\ UNCHANGED <<nonces, issued, passed, regs, certs, authzs, now, loc, calls, allowOrigins>>

\* The response has been sent; the slot is free for the next request.
Finish(p) ==
  /\ pc[p] \in {"done", "panic"}
  /\ pc' = [pc EXCEPT ![p] = "idle"]
  /\ req' = [req EXCEPT ![p] = NoReq]
  /\ loc' = [loc EXCEPT ![p] = ZeroLoc]
  /\ resp' = [resp EXCEPT ![p] = NewWriter]
  /\ logEvent' = [logEvent EXCEPT ![p] = NewEvent]
  /\ calls' = [calls EXCEPT ![p] = <<>>]
  /\ audit' = [audit EXCEPT ![p] = <<>>]
  /\ UNCHANGED <<nonces, issued, passed, regs, certs, authzs, now, allowOrigins>>

(* --------------------- verifyPOST as handler steps -------------------- *)
\* verifyPOST up to its call of SA.GetRegistrationByKey, which is made only
\* if the envelope got that far.
VerifyLookup(p) ==
  /\ pc[p] = "lookup"
  /\ LET r == req[p]
         probe == verifyPOST(logEvent[p], r, RegCheck(r.route), ResourceOf(r.route),
                             NoLookup, nonces)
     IN IF probe.sa
        THEN /\ \E lk \in GetRegistrationByKey(regs, r.jwk) :
                  loc' = [loc EXCEPT ![p].lk = lk]
             /\ calls' = [calls EXCEPT ![p] = Append(@, Call("SA.GetRegistrationByKey", r.jwk, 0))]
        ELSE /\ loc' = [loc EXCEPT ![p].lk = NoLookup]
             /\ calls' = calls
  /\ pc' = [pc EXCEPT ![p] = "verify"]
  /\ UNCHANGED <<nonces, issued, passed, regs, certs, authzs, now, req, resp, logEvent,
                 audit, allowOrigins>>

\* what verifyPOST returns to the handler of slot p
Verified(p) ==
  verifyPOST(logEvent[p], req[p], RegCheck(req[p].route), ResourceOf(req[p].route),
             loc[p].lk, nonces)

\* the returns of verifyPOST that lie behind a successful nonceService.Valid
PastNonce == {"payload", "noresource", "resource", "ok"}

\* verifyPOST's effect on the nonce service, and the handler's locals after it
VerifyEffects(p, v) ==
  /\ nonces' = v.valid
  /\ passed' = IF v.step \in PastNonce
               THEN [passed EXCEPT ![req[p].nonce] = @ + 1]
               ELSE passed
  /\ loc' = [loc EXCEPT ![p].key = v.key, ![p].reg = v.reg, ![p].step = v.step,
                        ![p].err = v.err,
                        ![p].verr = Len(v.ev.Errors) - Len(logEvent[p].Errors),
                        ![p].touched = (v.valid # nonces)]

(* ---------------------- Registration Authority (RA) ------------------- *)
\* the errors an RA call may fail with
RAErrors == {"InternalServerError", "RateLimitedError"}

\* RA.NewRegistration: fails, or stores a registration of the key under the
\* next ID. A key has at most one registration.
RA_NewRegistration(rs, init) ==
  {LookupResult(e, ZeroReg) : e \in RAErrors}
  \cup (IF Len(rs) < MaxReg /\ \A x \in SeqRange(rs) : x.Key # init.Key
        THEN {LookupResult("nil", [ID |-> Len(rs) + 1, Key |-> init.Key,
                                   Agreement |-> init.Agreement])}
        ELSE {})

\* RA.UpdateRegistration(base, update): fails, or stores base merged with the
\* update's non-empty fields.
MergeUpdate(base, update) ==
  [ID |-> base.ID,
   Key |-> IF update.Key # NoKey THEN update.Key ELSE base.Key,
   Agreement |-> IF update.Agreement # "" THEN update.Agreement ELSE base.Agreement]

RA_UpdateRegistration(base, update) ==
  {LookupResult(e, ZeroReg) : e \in RAErrors}
  \cup {LookupResult("nil", MergeUpdate(base, update))}

(* ---------------------------- NewRegistration ------------------------- *)
NewRegistrationVerify(p) ==
  /\ pc[p] = "verify"
  /\ req[p].route = "new-reg"
  /\ LET v == Verified(p)
         c == [Cx(p) EXCEPT !.ev = v.ev]
     IN /\ VerifyEffects(p, v)
        /\ Goto(p, IF v.err # "nil"
                   THEN Step(sendError(c, malformedJWS, v.err, statusCodeFromError(v.err)),
                             "done")
                   ELSE Step(c, "new-reg:existing"))
  /\ UNCHANGED <<issued, regs, certs, authzs, now, req, calls, allowOrigins>>

\* Variant of NewRegistrationChecks: the agreement of the payload is not looked at.
NewRegistrationChecksAnyAgreement(c, r, existing) ==
  IF existing.err = "nil" THEN
    Step(sendError([c EXCEPT !.w = HeaderSet(c.w, "Location", "reg", existing.reg.ID)],
                   "Registration key is already in use", "nil", 409),
         "done")
  ELSE IF ~r.bodyOK THEN
    Step(sendError(c, "Error unmarshaling JSON", "json", 400), "done")
  ELSE IF ~r.addrOK THEN
    Step(sendError(cAddError(c, "Couldn't parse RemoteAddr"),
                   "couldn't parse the remote (that is, the client's) address", "nil", 500),
         "done")
  ELSE Step(c, "new-reg:create")

\* from the answer of the second SA.GetRegistrationByKey to the RA call
NewRegistrationChecks(c, r, existing) ==
  IF existing.err = "nil" THEN
    Step(sendError([c EXCEPT !.w = HeaderSet(c.w, "Location", "reg", existing.reg.ID)],
                   "Registration key is already in use", "nil", 409),
         "done")
  ELSE IF ~r.bodyOK THEN
    Step(sendError(c, "Error unmarshaling JSON", "json", 400), "done")
  ELSE IF r.agreement # "" /\ r.agreement # SubscriberAgreementURL THEN
    Step(sendError(c, "Provided agreement URL does not match current agreement URL",
                   "nil", 400),
         "done")
  ELSE IF ~r.addrOK THEN
    Step(sendError(cAddError(c, "Couldn't parse RemoteAddr"),
                   "couldn't parse the remote (that is, the client's) address", "nil", 500),
         "done")
  ELSE Step(c, "new-reg:create")

NewRegistrationExisting(p) ==
  /\ pc[p] = "new-reg:existing"
  /\ \E existing \in GetRegistrationByKey(regs, loc[p].key) :
       Goto(p, NewRegistrationChecks(Cx(p), req[p], existing))
  /\ calls' = [calls EXCEPT ![p] = Append(@, Call("SA.GetRegistrationByKey", loc[p].key, 0))]
  /\ UNCHANGED <<nonces, issued, passed, regs, certs, authzs, now, req, loc, allowOrigins>>

\* init := the payload, with init.Key = *key
NewRegistrationInit(r, key) == [ID |-> 0, Key |-> key, Agreement |-> r.agreement]

NewRegistrationReply(c, res) ==
  IF res.err # "nil" THEN
    sendError(cAddError(c, "unable to create new registration"),
              "Error creating new registration", res.err, statusCodeFromError(res.err))
  ELSE
    LET w1 == HeaderAdd(c.w, "Location", "reg", res.reg.ID)
        w2 == HeaderSet(w1, "Content-Type", "application/json", 0)
        w3 == HeaderAdd(w2, "Link", "next", 0)
        w4 == IF SubscriberAgreementURL # "" THEN HeaderAdd(w3, "Link", "terms-of-service", 0)
              ELSE w3
        w5 == Write(WriteHeader(w4, 201), [NoBody EXCEPT !.kind = "reg", !.reg = res.reg])
    IN [c EXCEPT !.w = w5, !.ev.Requester = res.reg.ID]

NewRegistrationCreate(p) ==
  /\ pc[p] = "new-reg:create"
  /\ LET init == NewRegistrationInit(req[p], loc[p].key)
     IN /\ \E res \in RA_NewRegistration(regs, init) :
             /\ regs' = IF res.err = "nil" THEN Append(regs, res.reg) ELSE regs
             /\ Goto(p, Step(NewRegistrationReply(Cx(p), res), "done"))
        /\ calls' = [calls EXCEPT ![p] = Append(@, Call("RA.NewRegistration", init.Key, 0))]
  /\ UNCHANGED <<nonces, issued, passed, certs, authzs, now, req, loc, allowOrigins>>

(* ----------------------------- Registration --------------------------- *)
\* the handlers that ask for a known registration answer its absence with 403
KnownRegError(c, err) ==
  IF err = "NoSuchRegistrationError" THEN sendError(c, unknownKey, err, 403)
  ELSE sendError(c, malformedJWS, err, statusCodeFromError(err))

\* Variant of RegistrationChecks: the ID of the path is not compared with the
\* requester's.
RegistrationChecksAnyID(c, r, currReg) ==
  IF ~r.pathOK THEN
    Step(sendError(cAddError(c, "registration ID must be an integer"),
                   "Registration ID must be an integer", "strconv", 400),
         "done")
  ELSE IF r.id <= 0 THEN
    Step(sendError(cAddError(c, "Registration ID must be a positive non-zero integer"),
                   "Registration ID must be a positive non-zero integer", "int", 400),
         "done")
  ELSE IF ~r.bodyOK THEN
    Step(sendError(cAddError(c, "unable to JSON parse registration"),
                   "Error unmarshaling registration", "json", 400),
         "done")
  ELSE IF r.agreement # "" /\ r.agreement # SubscriberAgreementURL THEN
    Step(sendError(cAddError(c, "Provided agreement URL does not match current agreement URL"),
                   "Provided agreement URL does not match current agreement URL", "nil", 400),
         "done")
  ELSE Step(c, "reg:update")

\* from verifyPOST's success to the RA call
RegistrationChecks(c, r, currReg) ==
  IF ~r.pathOK THEN
    Step(sendError(cAddError(c, "registration ID must be an integer"),
                   "Registration ID must be an integer", "strconv", 400),
         "done")
  ELSE IF r.id <= 0 THEN
    Step(sendError(cAddError(c, "Registration ID must be a positive non-zero integer"),
                   "Registration ID must be a positive non-zero integer", "int", 400),
         "done")
  ELSE IF r.id # currReg.ID THEN
    Step(sendError(cAddError(c, "Request signing key did not match registration key"),
                   "Request signing key did not match registration key", "string", 403),
         "done")
  ELSE IF ~r.bodyOK THEN
    Step(sendError(cAddError(c, "unable to JSON parse registration"),
                   "Error unmarshaling registration", "json", 400),
         "done")
  ELSE IF r.agreement # "" /\ r.agreement # SubscriberAgreementURL THEN
    Step(sendError(cAddError(c, "Provided agreement URL does not match current agreement URL"),
                   "Provided agreement URL does not match current agreement URL", "nil", 400),
         "done")
  ELSE Step(c, "reg:update")

RegistrationVerify(p) ==
  /\ pc[p] = "verify"
  /\ req[p].route = "reg"
  /\ LET v == Verified(p)
         c == [Cx(p) EXCEPT !.ev = v.ev]
     IN /\ VerifyEffects(p, v)
        /\ Goto(p, IF v.err # "nil" THEN Step(KnownRegError(c, v.err), "done")
                   ELSE RegistrationChecks(c, req[p], v.reg))
  /\ UNCHANGED <<issued, regs, certs, authzs, now, req, calls, allowOrigins>>

\* Variant of RegistrationUpdateOf: the update is forwarded as the payload gave it.
RegistrationUpdateOfPayload(r, currReg) ==
  [ID |-> 0, Key |-> r.updKey, Agreement |-> r.agreement]

\* update := the payload, then update.Key = currReg.Key
RegistrationUpdateOf(r, currReg) ==
  [[ID |-> 0, Key |-> r.updKey, Agreement |-> r.agreement] EXCEPT !.Key = currReg.Key]

RegistrationReply(c, res) ==
  IF res.err # "nil" THEN
    sendError(cAddError(c, "unable to update registration"),
              "Unable to update registration", res.err, statusCodeFromError(res.err))
  ELSE
    LET w1 == HeaderSet(c.w, "Content-Type", "application/json", 0)
        w2 == HeaderAdd(w1, "Link", "next", 0)
        w3 == IF SubscriberAgreementURL # "" THEN HeaderAdd(w2, "Link", "terms-of-service", 0)
              ELSE w2
    IN [c EXCEPT !.w = Write(WriteHeader(w3, 202),
                             [NoBody EXCEPT !.kind = "reg", !.reg = res.reg])]

RegistrationUpdate(p) ==
  /\ pc[p] = "reg:update"
  /\ LET currReg == loc[p].reg
         update == RegistrationUpdateOf(req[p], currReg)
     IN /\ \E res \in RA_UpdateRegistration(currReg, update) :
             /\ regs' = IF res.err = "nil" THEN [regs EXCEPT ![currReg.ID] = res.reg]
                        ELSE regs
             /\ Goto(p, Step(RegistrationReply(Cx(p), res), "done"))
        /\ calls' = [calls EXCEPT ![p] =
                       Append(@, Call("RA.UpdateRegistration", update.Key, currReg.ID))]
  /\ UNCHANGED <<nonces, issued, passed, certs, authzs, now, req, loc, allowOrigins>>

(* ------------------ Storage: authorizations, certificates ------------- *)
\* SA.GetAuthorization(id): the authorization, or an error
GetAuthorization(as, id) ==
  (IF id \in 1..Len(as) THEN {[err |-> "nil", authz |-> as[id]]}
   ELSE {[err |-> "NotFoundError", authz |-> ZeroAuthz]})
  \cup {[err |-> "InternalServerError", authz |-> ZeroAuthz]}

\* SA.GetCertificate(serial): the certificate, or an error; "multiple" is the
\* error whose text starts with "gorp: multiple rows returned"
GetCertificate(cs, serial) ==
  (IF serial \in 1..Len(cs) THEN {[err |-> "nil", cert |-> cs[serial]]}
   ELSE {[err |-> "NotFoundError", cert |-> ZeroCert]})
  \cup {[err |-> "multiple", cert |-> ZeroCert],
        [err |-> "InternalServerError", cert |-> ZeroCert]}

\* SA.GetCertificateStatus(serial): the status, or an error
GetCertificateStatus(cs, serial) ==
  (IF serial \in 1..Len(cs) THEN {[err |-> "nil", status |-> cs[serial].Status]}
   ELSE {[err |-> "NotFoundError", status |-> ""]})
  \cup {[err |-> "InternalServerError", status |-> ""]}

OCSPStatusRevoked == "revoked"

\* A certificate's DER bytes: 10 * serial is the encoding the Storage holds,
\* 10 * serial + 1 another certificate with the same serial, 0 no certificate.
\* x509.ParseCertificate fails on 0 and reads the serial off the rest.
ParsesAsCertificate(der) == der > 0

SerialNumber(der) == der \div 10

(* ------------------ RA: authorizations and certificates --------------- *)
\* The challenges of a new authorization. A challenge's ID is not its index.
NewChallenges(authzID, key) ==
  <<[ID |-> 20 + authzID, AccountKey |-> key, Status |-> "pending", URI |-> <<0, 0>>],
    [ID |-> 10 + authzID, AccountKey |-> key, Status |-> "pending", URI |-> <<0, 0>>]>>

\* RA.NewAuthorization(init, regID)
RA_NewAuthorization(as, rs, regID, t) ==
  {[err |-> e, authz |-> ZeroAuthz] : e \in RAErrors}
  \cup (IF Len(as) < MaxAuthz
        THEN {[err |-> "nil",
               authz |-> [ID |-> Len(as) + 1, RegistrationID |-> regID, Expires |-> t + 1,
                          Challenges |-> NewChallenges(Len(as) + 1, rs[regID].Key)]]}
        ELSE {})

\* RA.UpdateAuthorization(authz, challengeIndex, response): the authorization
\* with that challenge taken up; the challenges keep their order.
RA_UpdateAuthorization(authz, idx) ==
  {[err |-> e, authz |-> ZeroAuthz] : e \in RAErrors}
  \cup {[err |-> "nil", authz |-> [authz EXCEPT !.Challenges[idx].Status = "processing"]]}

\* RA.NewCertificate(csr, regID)
RA_NewCertificate(cs, csrKey, regID) ==
  {[err |-> e, cert |-> ZeroCert] : e \in RAErrors}
  \cup (IF Len(cs) < MaxCert
        THEN {[err |-> "nil",
               cert |-> [Serial |-> Len(cs) + 1, DER |-> 10 * (Len(cs) + 1),
                         RegistrationID |-> regID, PublicKey |-> csrKey,
                         Status |-> "good"]]}
        ELSE {})

\* RA.RevokeCertificateWithReg(cert, 0, regID)
RA_RevokeCertificateWithReg == {"nil"} \cup RAErrors

(* ------------------- preparing objects for display -------------------- *)
\* Variant of prepChallengeForDisplay: the URI is filled in and nothing is cleared.
prepChallengeForDisplayURIOnly(authz, challenge) ==
  [challenge EXCEPT !.URI = <<authz.ID, challenge.ID>>]

prepChallengeForDisplay(authz, challenge) ==
  [challenge EXCEPT !.URI = <<authz.ID, challenge.ID>>, !.AccountKey = NoKey, !.ID = 0]

prepAuthorizationForDisplay(authz) ==
  [authz EXCEPT
     !.Challenges = [i \in 1..Len(authz.Challenges) |->
                       prepChallengeForDisplay(authz, authz.Challenges[i])],
     !.ID = 0,
     !.RegistrationID = 0]

(* --------------------------- NewAuthorization ------------------------- *)
\* Variant of NewAuthorizationChecks: the account's agreement is not looked at.
NewAuthorizationChecksAnyAgreement(c, r, currReg) ==
  IF ~r.bodyOK THEN
    Step(sendError(cAddError(c, "unable to JSON unmarshal Authorization"),
                   "Error unmarshaling JSON", "json", 400),
         "done")
  ELSE Step(c, "new-authz:create")

NewAuthorizationChecks(c, r, currReg) ==
  IF currReg.Agreement = "" THEN
    Step(sendError(c, "Must agree to subscriber agreement before any further actions",
                   "nil", 403),
         "done")
  ELSE IF ~r.bodyOK THEN
    Step(sendError(cAddError(c, "unable to JSON unmarshal Authorization"),
                   "Error unmarshaling JSON", "json", 400),
         "done")
  ELSE Step(c, "new-authz:create")

NewAuthorizationVerify(p) ==
  /\ pc[p] = "verify"
  /\ req[p].route = "new-authz"
  /\ LET v == Verified(p)
         c == [Cx(p) EXCEPT !.ev = v.ev]
     IN /\ VerifyEffects(p, v)
        /\ Goto(p, IF v.err # "nil" THEN Step(KnownRegError(c, v.err), "done")
                   ELSE NewAuthorizationChecks(c, req[p], v.reg))
  /\ UNCHANGED <<issued, regs, certs, authzs, now, req, calls, allowOrigins>>

NewAuthorizationReply(c, res) ==
  IF res.err # "nil" THEN
    sendError(cAddError(c, "unable to create new authz"), "Error creating new authz",
              res.err, statusCodeFromError(res.err))
  ELSE
    LET authzID == res.authz.ID
        shown == prepAuthorizationForDisplay(res.authz)
        w1 == HeaderAdd(c.w, "Location", "authz", authzID)
        w2 == HeaderAdd(w1, "Link", "next", 0)
        w3 == HeaderSet(w2, "Content-Type", "application/json", 0)
    IN [c EXCEPT !.w = Write(WriteHeader(w3, 201),
                             [NoBody EXCEPT !.kind = "authz", !.authz = shown])]

NewAuthorizationCreate(p) ==
  /\ pc[p] = "new-authz:create"
  /\ \E res \in RA_NewAuthorization(authzs, regs, loc[p].reg.ID, now) :
       /\ authzs' = IF res.err = "nil" THEN Append(authzs, res.authz) ELSE authzs
       /\ Goto(p, Step(NewAuthorizationReply(Cx(p), res), "done"))
  /\ calls' = [calls EXCEPT ![p] = Append(@, Call("RA.NewAuthorization", NoKey, loc[p].reg.ID))]
  /\ UNCHANGED <<nonces, issued, passed, regs, certs, now, req, loc, allowOrigins>>

(* ----------------------------- Authorization -------------------------- *)
\* Variant of Expired: an expiry that is set is not compared with the clock.
ExpiredOnlyUnset(authz, t) == authz.Expires = NoExpiry

\* authz.Expires == nil || authz.Expires.Before(wfe.clk.Now())
Expired(authz, t) == authz.Expires = NoExpiry \/ authz.Expires < t

\* The expired branch formats *authz.Expires into its message before it calls
\* sendError: with Expires == nil that is a nil dereference and the handler
\* panics, having written nothing.
ExpiredReply(c, authz) ==
  IF authz.Expires = NoExpiry THEN Step(c, "panic")
  ELSE Step(sendError(c, "Expired authorization", "string", 404), "done")

AuthorizationReply(c, res, t) ==
  IF res.err # "nil" THEN
    Step(sendError(cAddError(c, "No such authorization"), "Unable to find authorization",
                   res.err, 404),
         "done")
  ELSE IF Expired(res.authz, t) THEN ExpiredReply(c, res.authz)
  ELSE
    LET shown == prepAuthorizationForDisplay(res.authz)
        w1 == HeaderAdd(c.w, "Link", "next", 0)
        w2 == HeaderSet(w1, "Content-Type", "application/json", 0)
    IN Step([c EXCEPT !.w = Write(WriteHeader(w2, 200),
                                  [NoBody EXCEPT !.kind = "authz", !.authz = shown])],
            "done")

Authorization(p) ==
  /\ pc[p] = "authz"
  /\ \E res \in GetAuthorization(authzs, req[p].id) :
       Goto(p, AuthorizationReply(Cx(p), res, now))
  /\ calls' = [calls EXCEPT ![p] = Append(@, Call("SA.GetAuthorization", NoKey, req[p].id))]
  /\ UNCHANGED <<nonces, issued, passed, regs, certs, authzs, now, req, loc, allowOrigins>>

(* ------------------------------- Challenge ---------------------------- *)
\* authz.FindChallenge(challengeID): the index of the challenge with that ID,
\* -1 if there is none. Indexes count from 1 here and from 0 in Go.
FindChallenge(authz, challengeID) ==
  LET hits == {i \in 1..Len(authz.Challenges) : authz.Challenges[i].ID = challengeID}
  IN IF hits = {} THEN -1 ELSE SetMin(hits)

notFound(c) == sendError(c, "No such registration", "string", 404)

getChallenge(c, authz, challenge) ==
  LET shown == prepChallengeForDisplay(authz, challenge)
      w1 == HeaderAdd(c.w, "Location", "challenge", shown.URI[1] * 100 + shown.URI[2])
      w2 == HeaderSet(w1, "Content-Type", "application/json", 0)
      w3 == HeaderAdd(w2, "Link", "up", authz.ID)
  IN [c EXCEPT !.w = Write(WriteHeader(w3, 202),
                           [NoBody EXCEPT !.kind = "challenge", !.chall = shown])]

\* A Challenge that hands every POST to postChallenge, and so to verifyPOST,
\* before it has looked at the authorization.
ChallengeFoundVerifyFirst(c, r, res, t) ==
  IF r.method = "POST" THEN Step(c, "lookup")
  ELSE IF res.err # "nil" THEN Step(notFound(c), "done")
  ELSE IF Expired(res.authz, t) THEN ExpiredReply(c, res.authz)
  ELSE IF FindChallenge(res.authz, r.cid) = -1 THEN Step(notFound(c), "done")
  ELSE Step(getChallenge(c, res.authz, res.authz.Challenges[FindChallenge(res.authz, r.cid)]),
            "done")

\* Challenge, from the answer of SA.GetAuthorization on
ChallengeFound(c, r, res, t) ==
  IF res.err # "nil" THEN Step(notFound(c), "done")
  ELSE IF Expired(res.authz, t) THEN ExpiredReply(c, res.authz)
  ELSE IF FindChallenge(res.authz, r.cid) = -1 THEN Step(notFound(c), "done")
  ELSE IF r.method \in {"GET", "HEAD"} THEN
    Step(getChallenge(c, res.authz, res.authz.Challenges[FindChallenge(res.authz, r.cid)]),
         "done")
  ELSE IF r.method = "POST" THEN Step(c, "lookup")
  ELSE Step(c, "done")

Challenge(p) ==
  /\ pc[p] = "challenge"
  /\ IF ~req[p].pathOK
     THEN /\ Goto(p, Step(notFound(Cx(p)), "done"))
          /\ UNCHANGED <<calls, loc>>
     ELSE /\ \E res \in GetAuthorization(authzs, req[p].id) :
               /\ Goto(p, ChallengeFound(Cx(p), req[p], res, now))
               /\ loc' = [loc EXCEPT ![p].authz = res.authz,
                                     ![p].idx = FindChallenge(res.authz, req[p].cid)]
          /\ calls' = [calls EXCEPT ![p] =
                         Append(@, Call("SA.GetAuthorization", NoKey, req[p].id))]
  /\ UNCHANGED <<nonces, issued, passed, regs, certs, authzs, now, req, allowOrigins>>

\* postChallenge's answer to an error of verifyPOST
postChallengeVerifyError(c, err) ==
  IF err = "NoSuchRegistrationError" THEN sendError(c, unknownKey, err, 403)
  ELSE sendError(c, malformedJWS, err, 400)

\* Variant of postChallengeChecks: the owner of the authorization is not
\* compared with the requester.
postChallengeChecksAnyOwner(c, r, currReg, authz) ==
  IF currReg.Agreement = "" THEN
    Step(sendError(c, "Registration didn't agree to subscriber agreement before any further actions",
                   "nil", 403),
         "done")
  ELSE IF ~r.bodyOK THEN
    Step(sendError(cAddError(c, "error JSON unmarshalling challenge response"),
                   "Error unmarshaling challenge response", "json", 400),
         "done")
  ELSE Step(c, "challenge:update")

postChallengeChecks(c, r, currReg, authz) ==
  IF currReg.Agreement = "" THEN
    Step(sendError(c, "Registration didn't agree to subscriber agreement before any further actions",
                   "nil", 403),
         "done")
  ELSE IF currReg.ID # authz.RegistrationID THEN
    Step(sendError(cAddError(c, "User registration id != Authorization registration id"),
                   "User registration ID doesn't match registration ID in authorization",
                   "string", 403),
         "done")
  ELSE IF ~r.bodyOK THEN
    Step(sendError(cAddError(c, "error JSON unmarshalling challenge response"),
                   "Error unmarshaling challenge response", "json", 400),
         "done")
  ELSE Step(c, "challenge:update")

postChallengeVerify(p) ==
  /\ pc[p] = "verify"
  /\ req[p].route = "challenge"
  /\ LET v == Verified(p)
         c == [Cx(p) EXCEPT !.ev = v.ev]
     IN /\ VerifyEffects(p, v)
        /\ Goto(p, IF v.err # "nil" THEN Step(postChallengeVerifyError(c, v.err), "done")
                   ELSE postChallengeChecks(c, req[p], v.reg, loc[p].authz))
  /\ UNCHANGED <<issued, regs, certs, authzs, now, req, calls, allowOrigins>>

\* Variant of postChallengeReply: the response is built from the first
\* challenge of the authorization the Authority returned.
postChallengeReplyFirst(c, authz, challengeIndex, res) ==
  IF res.err # "nil" THEN
    sendError(cAddError(c, "unable to update challenge"), "Unable to update challenge",
              res.err, statusCodeFromError(res.err))
  ELSE
    LET shown == prepChallengeForDisplay(authz, res.authz.Challenges[1])
        w1 == HeaderAdd(c.w, "Location", "challenge", shown.URI[1] * 100 + shown.URI[2])
        w2 == HeaderSet(w1, "Content-Type", "application/json", 0)
        w3 == HeaderAdd(w2, "Link", "up", authz.ID)
    IN [c EXCEPT !.w = Write(WriteHeader(w3, 202),
                             [NoBody EXCEPT !.kind = "challenge", !.chall = shown])]

postChallengeReply(c, authz, challengeIndex, res) ==
  IF res.err # "nil" THEN
    sendError(cAddError(c, "unable to update challenge"), "Unable to update challenge",
              res.err, statusCodeFromError(res.err))
  ELSE
    LET shown == prepChallengeForDisplay(authz, res.authz.Challenges[challengeIndex])
        w1 == HeaderAdd(c.w, "Location", "challenge", shown.URI[1] * 100 + shown.URI[2])
        w2 == HeaderSet(w1, "Content-Type", "application/json", 0)
        w3 == HeaderAdd(w2, "Link", "up", authz.ID)
    IN [c EXCEPT !.w = Write(WriteHeader(w3, 202),
                             [NoBody EXCEPT !.kind = "challenge", !.chall = shown])]

postChallengeUpdate(p) ==
  /\ pc[p] = "challenge:update"
  /\ \E res \in RA_UpdateAuthorization(loc[p].authz, loc[p].idx) :
       /\ authzs' = IF res.err = "nil" THEN [authzs EXCEPT ![res.authz.ID] = res.authz]
                    ELSE authzs
       /\ Goto(p, Step(postChallengeReply(Cx(p), loc[p].authz, loc[p].idx, res), "done"))
  /\ calls' = [calls EXCEPT ![p] =
                 Append(@, Call("RA.UpdateAuthorization", NoKey, loc[p].idx))]
  /\ UNCHANGED <<nonces, issued, passed, regs, certs, now, req, loc, allowOrigins>>

\* the clock advances
Tick ==
  /\ now < MaxTime
  /\ now' = now + 1
  /\ UNCHANGED <<nonces, issued, passed, regs, certs, authzs, pc, req, loc, resp, logEvent,
                 calls, audit, allowOrigins>>

(* ---------------------------- NewCertificate -------------------------- *)
\* from verifyPOST's success to the RA call; logCsr writes the request to
\* the audit log
NewCertificateChecks(c, r, reg) ==
  IF reg.Agreement = "" THEN
    Step(sendError(c, "Must agree to subscriber agreement before any further actions",
                   "nil", 403),
         "done")
  ELSE IF ~r.bodyOK THEN
    Step(sendError(cAddError(c, "unable to JSON unmarshal CertificateRequest"),
                   "Error unmarshaling certificate request", "json", 400),
         "done")
  ELSE
    LET c1 == [c EXCEPT !.au = Append(@, "Certificate request")]
    IN IF ~GoodKey(r.csrKey) THEN
         Step(sendError(cAddError(c1, "CSR public key failed GoodKey"),
                        "Invalid key in certificate request", "MalformedRequestError", 400),
              "done")
       ELSE Step(c1, "new-cert:issue")

NewCertificateVerify(p) ==
  /\ pc[p] = "verify"
  /\ req[p].route = "new-cert"
  /\ LET v == Verified(p)
         c == [Cx(p) EXCEPT !.ev = v.ev]
     IN /\ VerifyEffects(p, v)
        /\ Goto(p, IF v.err # "nil" THEN Step(KnownRegError(c, v.err), "done")
                   ELSE NewCertificateChecks(c, req[p], v.reg))
  /\ UNCHANGED <<issued, regs, certs, authzs, now, req, calls, allowOrigins>>

NewCertificateReply(c, res) ==
  IF res.err # "nil" THEN
    sendError(cAddError(c, "unable to create new cert"), "Error creating new cert",
              res.err, statusCodeFromError(res.err))
  ELSE IF ~ParsesAsCertificate(res.cert.DER) THEN
    sendError(cAddError(c, "unable to parse certificate"), "Error creating new cert",
              "x509", 400)
  ELSE
    LET w1 == HeaderAdd(c.w, "Location", "cert", SerialNumber(res.cert.DER))
        w2 == HeaderAdd(w1, "Link", "up", 0)
        w3 == HeaderSet(w2, "Content-Type", "application/pkix-cert", 0)
    IN [c EXCEPT !.w = Write(WriteHeader(w3, 201),
                             [NoBody EXCEPT !.kind = "cert", !.der = res.cert.DER])]

NewCertificateIssue(p) ==
  /\ pc[p] = "new-cert:issue"
  /\ \E res \in RA_NewCertificate(certs, req[p].csrKey, loc[p].reg.ID) :
       /\ certs' = IF res.err = "nil" THEN Append(certs, res.cert) ELSE certs
       /\ Goto(p, Step(NewCertificateReply(Cx(p), res), "done"))
  /\ calls' = [calls EXCEPT ![p] =
                 Append(@, Call("RA.NewCertificate", req[p].csrKey, loc[p].reg.ID))]
  /\ UNCHANGED <<nonces, issued, passed, regs, authzs, now, req, loc, allowOrigins>>

(* ------------------------------ Certificate --------------------------- *)
\* The serial of the path is not valid (core.ValidSerial): the error is
\* written first and the Cache-Control header added afterwards.
CertificateBadSerial(c) ==
  LET c1 == sendError(cAddError(c, "certificate serial provided was not valid"),
                      "Certificate not found", "string", 404)
  IN [c1 EXCEPT !.w = addNoCacheHeader(c1.w)]

CertificateReply(c, res) ==
  IF res.err = "multiple" THEN
    sendError(cAddError(c, "unable to get certificate by serial id"),
              "Multiple certificates with same short serial", res.err, 409)
  ELSE IF res.err # "nil" THEN
    LET c1 == cAddError(c, "unable to get certificate by serial id")
    IN sendError([c1 EXCEPT !.w = addNoCacheHeader(c1.w)], "Certificate not found",
                 res.err, 404)
  ELSE
    LET w1 == addCacheHeader(c.w)
        w2 == HeaderSet(w1, "Content-Type", "application/pkix-cert", 0)
        w3 == HeaderAdd(w2, "Link", "up", 0)
    IN [c EXCEPT !.w = Write(WriteHeader(w3, 200),
                             [NoBody EXCEPT !.kind = "cert", !.der = res.cert.DER])]

Certificate(p) ==
  /\ pc[p] = "cert"
  /\ IF ~req[p].pathOK
     THEN /\ Goto(p, Step(CertificateBadSerial(Cx(p)), "done"))
          /\ calls' = calls
     ELSE /\ \E res \in GetCertificate(certs, req[p].id) :
               Goto(p, Step(CertificateReply(Cx(p), res), "done"))
          /\ calls' = [calls EXCEPT ![p] =
                         Append(@, Call("SA.GetCertificate", NoKey, req[p].id))]
  /\ UNCHANGED <<nonces, issued, passed, regs, certs, authzs, now, req, loc, allowOrigins>>

(* --------------------------- RevokeCertificate ------------------------ *)
\* from verifyPOST's success to SA.GetCertificate
RevokeCertificateParse(c, r) ==
  IF ~r.bodyOK THEN
    Step(sendError(cAddError(c, "Couldn't unmarshal in revoke request"),
                   "Unable to read/verify body", "json", 400),
         "done")
  ELSE IF ~ParsesAsCertificate(r.der) THEN
    Step(sendError(cAddError(c, "unable to parse revoke certificate DER"),
                   "Unable to read/verify body", "x509", 400),
         "done")
  ELSE Step(c, "revoke:cert")

RevokeCertificateVerify(p) ==
  /\ pc[p] = "verify"
  /\ req[p].route = "revoke-cert"
  /\ LET v == Verified(p)
         c == [Cx(p) EXCEPT !.ev = v.ev]
     IN /\ VerifyEffects(p, v)
        /\ Goto(p, IF v.err # "nil"
                   THEN Step(sendError(c, malformedJWS, v.err, statusCodeFromError(v.err)),
                             "done")
                   ELSE RevokeCertificateParse(c, req[p]))
  /\ UNCHANGED <<issued, regs, certs, authzs, now, req, calls, allowOrigins>>

\* Variant of RevokeCertificateFound: the bytes of the record are not compared
\* with the submitted bytes.
RevokeCertificateFoundAnyBytes(c, r, res) ==
  IF res.err # "nil" THEN
    Step(sendError(c, "No such certificate", res.err, 404), "done")
  ELSE IF ~ParsesAsCertificate(res.cert.DER) THEN
    Step(sendError(c, "Invalid certificate", "x509", 500), "done")
  ELSE Step(c, "revoke:status")

\* from the answer of SA.GetCertificate to SA.GetCertificateStatus
RevokeCertificateFound(c, r, res) ==
  IF res.err # "nil" \/ res.cert.DER # r.der THEN
    Step(sendError(c, "No such certificate", res.err, 404), "done")
  ELSE IF ~ParsesAsCertificate(res.cert.DER) THEN
    Step(sendError(c, "Invalid certificate", "x509", 500), "done")
  ELSE Step(c, "revoke:status")

RevokeCertificateLookup(p) ==
  /\ pc[p] = "revoke:cert"
  /\ LET serial == SerialNumber(req[p].der)
     IN /\ \E res \in GetCertificate(certs, serial) :
             /\ Goto(p, RevokeCertificateFound(Cx(p), req[p], res))
             /\ loc' = [loc EXCEPT ![p].cert = res.cert]
        /\ calls' = [calls EXCEPT ![p] = Append(@, Call("SA.GetCertificate", NoKey, serial))]
  /\ UNCHANGED <<nonces, issued, passed, regs, certs, authzs, now, req, allowOrigins>>

\* core.KeyDigestEquals(requestKey, parsedCertificate.PublicKey)
KeyDigestEquals(a, b) == a = b

\* Variant of RevokeAuthorized: only the holder of the certificate's key may
\* revoke it.
RevokeAuthorizedKeyOnly(requestKey, registration, cert) ==
  KeyDigestEquals(requestKey, cert.PublicKey)

\* may the requester revoke the certificate
RevokeAuthorized(requestKey, registration, cert) ==
  KeyDigestEquals(requestKey, cert.PublicKey) \/ registration.ID = cert.RegistrationID

\* Variant of RevokeCertificateStatus: the status the Storage reports is not
\* looked at.
RevokeCertificateStatusAnyStatus(c, res, requestKey, registration, cert) ==
  IF res.err # "nil" THEN
    Step(sendError(cAddError(c, "unable to get certificate status"),
                   "Certificate status not yet available", res.err, 404),
         "done")
  ELSE IF ~RevokeAuthorized(requestKey, registration, cert) THEN
    Step(sendError(c, "Revocation request must be signed by private key of cert to be revoked, or by the account key of the account that issued it.",
                   "key", 403),
         "done")
  ELSE Step(c, "revoke:revoke")

\* from the answer of SA.GetCertificateStatus to the RA call
RevokeCertificateStatus(c, res, requestKey, registration, cert) ==
  IF res.err # "nil" THEN
    Step(sendError(cAddError(c, "unable to get certificate status"),
                   "Certificate status not yet available", res.err, 404),
         "done")
  ELSE IF res.status = OCSPStatusRevoked THEN
    Step(sendError(cAddError(c, "Certificate already revoked"),
                   "Certificate already revoked", "string", 409),
         "done")
  ELSE IF ~RevokeAuthorized(requestKey, registration, cert) THEN
    Step(sendError(c, "Revocation request must be signed by private key of cert to be revoked, or by the account key of the account that issued it.",
                   "key", 403),
         "done")
  ELSE Step(c, "revoke:revoke")

RevokeCertificateCheck(p) ==
  /\ pc[p] = "revoke:status"
  /\ LET serial == SerialNumber(req[p].der)
     IN /\ \E res \in GetCertificateStatus(certs, serial) :
             /\ Goto(p, RevokeCertificateStatus(Cx(p), res, loc[p].key, loc[p].reg,
                                                loc[p].cert))
             /\ loc' = [loc EXCEPT ![p].certStatus = res]
        /\ calls' = [calls EXCEPT ![p] =
                       Append(@, Call("SA.GetCertificateStatus", NoKey, serial))]
  /\ UNCHANGED <<nonces, issued, passed, regs, certs, authzs, now, req, allowOrigins>>

RevokeCertificateReply(c, err) ==
  IF err # "nil" THEN
    sendError(cAddError(c, "failed to revoke certificate"), "Failed to revoke certificate",
              err, statusCodeFromError(err))
  ELSE [c EXCEPT !.w = WriteHeader(c.w, 200)]

RevokeCertificateRevoke(p) ==
  /\ pc[p] = "revoke:revoke"
  /\ LET serial == SerialNumber(loc[p].cert.DER)
     IN /\ \E err \in RA_RevokeCertificateWithReg :
             /\ certs' = IF err = "nil"
                         THEN [certs EXCEPT ![serial].Status = OCSPStatusRevoked]
                         ELSE certs
             /\ Goto(p, Step(RevokeCertificateReply(Cx(p), err), "done"))
        /\ calls' = [calls EXCEPT ![p] =
                       Append(@, Call("RA.RevokeCertificateWithReg", NoKey, serial))]
  /\ UNCHANGED <<nonces, issued, passed, regs, authzs, now, req, loc, allowOrigins>>

(* -------------------------------- Init -------------------------------- *)
\* The Storage at start. kA's registration 1 agreed to an older agreement,
\* kB's registration 2 to none; kC and kWeak own no registration.
InitRegs ==
  <<[ID |-> 1, Key |-> "kA", Agreement |-> "old"],
    [ID |-> 2, Key |-> "kB", Agreement |-> ""]>>

\* Certificate 1 was issued to registration 1 for the key kB, certificate 2 to
\* registration 2 for the key kC.
InitCerts ==
  <<[Serial |-> 1, DER |-> 10, RegistrationID |-> 1, PublicKey |-> "kB", Status |-> "good"],
    [Serial |-> 2, DER |-> 20, RegistrationID |-> 2, PublicKey |-> "kC", Status |-> "good"]>>

\* Authorization 1 of registration 1 expires at time 1; the pending
\* authorization 2 of registration 2 has no expiry yet.
InitAuthzs ==
  <<[ID |-> 1, RegistrationID |-> 1, Expires |-> 1, Challenges |-> NewChallenges(1, "kA")],
    [ID |-> 2, RegistrationID |-> 2, Expires |-> NoExpiry,
     Challenges |-> NewChallenges(2, "kB")]>>

Init ==
  /\ nonces = {}
  /\ issued = 0
  /\ passed = [n \in NonceVals |-> 0]
  /\ regs = InitRegs
  /\ certs = InitCerts
  /\ authzs = InitAuthzs
  /\ now = 0
  /\ pc = [p \in Procs |-> "idle"]
  /\ req = [p \in Procs |-> NoReq]
  /\ loc = [p \in Procs |-> ZeroLoc]
  /\ resp = [p \in Procs |-> NewWriter]
  /\ logEvent = [p \in Procs |-> NewEvent]
  /\ calls = [p \in Procs |-> <<>>]
  /\ audit = [p \in Procs |-> <<>>]
  /\ allowOrigins = <<>>

(* ------------------- accounts: new-reg and reg/{id} ------------------- *)
NewRegRequests ==
  LET b == BaseReq("new-reg", "POST")
  IN BrokenEnvelopes(b)
     \cup Signed({[b EXCEPT !.agreement = a] : a \in Agreements}
                 \cup {[b EXCEPT !.bodyOK = FALSE], [b EXCEPT !.addrOK = FALSE]})

RegRequests ==
  LET b == [BaseReq("reg", "POST") EXCEPT !.id = 1]
      ids == {[b EXCEPT !.id = i] : i \in -1..MaxReg}
  IN BrokenEnvelopes(b)
     \cup Signed({[x EXCEPT !.agreement = a] : x \in ids, a \in Agreements}
                 \cup {[x EXCEPT !.updKey = "kC"] : x \in ids}
                 \cup {[x EXCEPT !.bodyOK = FALSE] : x \in ids}
                 \cup {[b EXCEPT !.pathOK = FALSE]})

AcctRequests == NewRegRequests \cup RegRequests

\* one request at a time
NextAcct ==
  \/ Receive(1, AcctRequests)
  \/ VerifyLookup(1)
  \/ NewRegistrationVerify(1)
  \/ NewRegistrationExisting(1)
  \/ NewRegistrationCreate(1)
  \/ RegistrationVerify(1)
  \/ RegistrationUpdate(1)
  \/ Finish(1)

SpecAcct == Init /\ [][NextAcct]_vars

(* ------------- certificates: new-cert, cert/{serial}, revoke-cert ----- *)
NewCertRequests ==
  LET b == [BaseReq("new-cert", "POST") EXCEPT !.csrKey = "kA"]
  IN BrokenEnvelopes(b)
     \cup Signed({b, [b EXCEPT !.csrKey = "kWeak"], [b EXCEPT !.bodyOK = FALSE]})

CertRequests ==
  LET b == BaseReq("cert", "GET")
  IN {[b EXCEPT !.id = i] : i \in 1..MaxCert}
     \cup {[b EXCEPT !.pathOK = FALSE], [b EXCEPT !.method = "HEAD", !.pathOK = FALSE],
           [b EXCEPT !.method = "HEAD", !.id = 1]}

\* the DER of each stored certificate, of a different certificate with the
\* same serial, and bytes that are no certificate
RevokeRequests ==
  LET b == [BaseReq("revoke-cert", "POST") EXCEPT !.der = 10]
  IN BrokenEnvelopes(b)
     \cup Signed({[b EXCEPT !.der = d] : d \in {0, 11} \cup {10 * i : i \in 1..MaxCert}}
                 \cup {[b EXCEPT !.bodyOK = FALSE]})

CertFamilyRequests == NewCertRequests \cup CertRequests \cup RevokeRequests

NextCert ==
  \/ Receive(1, CertFamilyRequests)
  \/ VerifyLookup(1)
  \/ NewCertificateVerify(1)
  \/ NewCertificateIssue(1)
  \/ Certificate(1)
  \/ RevokeCertificateVerify(1)
  \/ RevokeCertificateLookup(1)
  \/ RevokeCertificateCheck(1)
  \/ RevokeCertificateRevoke(1)
  \/ Finish(1)

SpecCert == Init /\ [][NextCert]_vars

\* The same Storage with certificate 2 recorded for no registration: its
\* RegistrationID is 0, the ID of the zero core.Registration, and its public
\* key is kB's.
OrphanCerts ==
  <<InitCerts[1],
    [Serial |-> 2, DER |-> 20, RegistrationID |-> 0, PublicKey |-> "kB", Status |-> "good"]>>

InitOrphan ==
  /\ nonces = {}
  /\ issued = 0
  /\ passed = [n \in NonceVals |-> 0]
  /\ regs = InitRegs
  /\ certs = OrphanCerts
  /\ authzs = InitAuthzs
  /\ now = 0
  /\ pc = [p \in Procs |-> "idle"]
  /\ req = [p \in Procs |-> NoReq]
  /\ loc = [p \in Procs |-> ZeroLoc]
  /\ resp = [p \in Procs |-> NewWriter]
  /\ logEvent = [p \in Procs |-> NewEvent]
  /\ calls = [p \in Procs |-> <<>>]
  /\ audit = [p \in Procs |-> <<>>]
  /\ allowOrigins = <<>>

SpecOrphan == InitOrphan /\ [][NextCert]_vars

(* ------ authorizations: new-authz, authz/{id}, challenge/{id}/{cid} --- *)
NewAuthzRequests ==
  LET b == BaseReq("new-authz", "POST")
  IN BrokenEnvelopes(b) \cup Signed({b, [b EXCEPT !.bodyOK = FALSE]})

AuthzRequests ==
  LET b == BaseReq("authz", "GET")
  IN {[b EXCEPT !.id = i] : i \in 1..MaxAuthz} \cup {[b EXCEPT !.method = "HEAD", !.id = 1]}

\* the IDs challenge paths are made of: those of the challenges of
\* authorizations 1 and 2 and one that no challenge has
ChallengeIDs == {21, 11, 12, 5}

ChallengeGets ==
  LET b == BaseReq("challenge", "GET")
  IN {[b EXCEPT !.id = i, !.cid = j] : i \in 1..MaxAuthz, j \in ChallengeIDs}
     \cup {[b EXCEPT !.pathOK = FALSE]}

ChallengePosts ==
  LET b == [BaseReq("challenge", "POST") EXCEPT !.id = 1, !.cid = 21]
  IN BrokenEnvelopes(b)
     \cup {[x EXCEPT !.id = 3] : x \in BrokenEnvelopes(b)}
     \cup Signed({[b EXCEPT !.id = i, !.cid = j] : i \in 1..2, j \in {21, 11, 12}}
                 \cup {[b EXCEPT !.bodyOK = FALSE], [b EXCEPT !.pathOK = FALSE]})

AuthzFamilyRequests ==
  NewAuthzRequests \cup AuthzRequests \cup ChallengeGets \cup ChallengePosts

NextAuthz ==
  \/ Receive(1, AuthzFamilyRequests)
  \/ VerifyLookup(1)
  \/ NewAuthorizationVerify(1)
  \/ NewAuthorizationCreate(1)
  \/ Authorization(1)
  \/ Challenge(1)
  \/ postChallengeVerify(1)
  \/ postChallengeUpdate(1)
  \/ Tick
  \/ Finish(1)

SpecAuthz == Init /\ [][NextAuthz]_vars

(* --------------------- every POST endpoint at once -------------------- *)
\* the requests with a broken envelope on each POST endpoint, and one request
\* per endpoint that its handler carries out
PostRequests ==
  LET reg1 == [BaseReq("reg", "POST") EXCEPT !.id = 1]
      cert == [BaseReq("new-cert", "POST") EXCEPT !.csrKey = "kC"]
      revoke == [BaseReq("revoke-cert", "POST") EXCEPT !.der = 10]
      chall == [BaseReq("challenge", "POST") EXCEPT !.id = 1, !.cid = 21]
      broken == UNION {BrokenEnvelopes(b) :
                         b \in {BaseReq("new-reg", "POST"), BaseReq("new-authz", "POST"),
                                reg1, cert, revoke, chall}}
  IN broken
     \cup {[x EXCEPT !.id = i] : x \in BrokenEnvelopes(chall), i \in 2..MaxAuthz}
     \cup WithNonce({[BaseReq("new-reg", "POST") EXCEPT !.jwk = "kC"],
                     BaseReq("new-authz", "POST"), reg1, cert, chall,
                     [revoke EXCEPT !.jwk = "kB"], [revoke EXCEPT !.jwk = "kC"]})
     \cup WithNonce({[x EXCEPT !.jwk = "kB"] :
                       x \in {BaseReq("new-authz", "POST"), cert, chall}})
     \cup WithNonce({[reg1 EXCEPT !.jwk = "kB", !.id = 2,
                                  !.agreement = SubscriberAgreementURL]})

NextPost ==
  \/ Receive(1, PostRequests)
  \/ VerifyLookup(1)
  \/ Challenge(1)
  \/ NewRegistrationVerify(1)
  \/ NewRegistrationExisting(1)
  \/ NewRegistrationCreate(1)
  \/ RegistrationVerify(1)
  \/ RegistrationUpdate(1)
  \/ NewAuthorizationVerify(1)
  \/ NewAuthorizationCreate(1)
  \/ NewCertificateVerify(1)
  \/ NewCertificateIssue(1)
  \/ postChallengeVerify(1)
  \/ postChallengeUpdate(1)
  \/ RevokeCertificateVerify(1)
  \/ RevokeCertificateLookup(1)
  \/ RevokeCertificateCheck(1)
  \/ RevokeCertificateRevoke(1)
  \/ Finish(1)

SpecPost == Init /\ [][NextPost]_vars

(* ------------------------ two requests at a time ---------------------- *)
ConcRequests ==
  WithNonce({[BaseReq("new-reg", "POST") EXCEPT !.jwk = "kC"],
             [BaseReq("reg", "POST") EXCEPT !.id = 1, !.agreement = SubscriberAgreementURL]})

NextConc ==
  \E p \in Procs :
    \/ Receive(p, ConcRequests)
    \/ VerifyLookup(p)
    \/ NewRegistrationVerify(p)
    \/ NewRegistrationExisting(p)
    \/ NewRegistrationCreate(p)
    \/ RegistrationVerify(p)
    \/ RegistrationUpdate(p)
    \/ Finish(p)

SpecConc == Init /\ [][NextConc]_vars

(* ------------------- two revocations at a time ----------------------- *)
\* revocations of certificate 1 by the account it was issued to (kA) and by
\* the holder of its key (kB), with each nonce that can be valid
RevokeRaceRequests ==
  {[BaseReq("revoke-cert", "POST") EXCEPT !.der = 10, !.jwk = k, !.nonce = n] :
     k \in {"kA", "kB"}, n \in 1..MaxNonce}

NextRevoke ==
  \E p \in Procs :
    \/ Receive(p, RevokeRaceRequests)
    \/ VerifyLookup(p)
    \/ RevokeCertificateVerify(p)
    \/ RevokeCertificateLookup(p)
    \/ RevokeCertificateCheck(p)
    \/ RevokeCertificateRevoke(p)
    \/ Finish(p)

SpecRevoke == Init /\ [][NextRevoke]_vars

(* ------------- two requests at a time, with every method -------------- *)
\* new-reg POSTs by a key without an account carrying each nonce value, the
\* same with the first nonce and a payload that is not bound to new-reg, one
\* whose signature does not verify, and requests the wrapper or a handler
\* without shared state answers
NonceRequests ==
  LET b == [BaseReq("new-reg", "POST") EXCEPT !.jwk = "kC"]
  IN WithNonce({b})
     \cup {[x EXCEPT !.nonce = 1] :
             x \in {[b EXCEPT !.payload = "notjson"], [b EXCEPT !.resource = ""],
                    [b EXCEPT !.resource = WrongResource("new-reg")]}}
  \cup {[BaseReq("new-reg", "POST") EXCEPT !.jwk = "kC", !.sigOK = FALSE],
        BaseReq("new-reg", "GET"), BaseReq("new-reg", "OPTIONS"),
        BaseReq("directory", "GET"), BaseReq("directory", "HEAD")}

NextNonce ==
  \E p \in Procs :
    \/ Receive(p, NonceRequests)
    \/ VerifyLookup(p)
    \/ NewRegistrationVerify(p)
    \/ NewRegistrationExisting(p)
    \/ NewRegistrationCreate(p)
    \/ Finish(p)

SpecNonce == Init /\ [][NextNonce]_vars

(* ----------------------- the routes that only read -------------------- *)
StaticRequests ==
  {[BaseReq(route, m) EXCEPT !.origin = o] :
     route \in {"directory", "terms", "issuer", "build"},
     m \in {"GET", "HEAD", "POST", "OPTIONS"},
     o \in {"", "https://example.com"}}

\* the routes registered through HandleFunc
WrappedRoutes ==
  PostRoutes \cup {"directory", "authz", "cert", "terms", "issuer", "build"}

Origins == {"", "https://example.com", "https://other.example"}

\* the values wfe.AllowOrigins is configured with
AllowOriginLists ==
  {<<>>, <<"*">>, <<"https://example.com">>, <<"https://other.example", "*">>}

\* The requests the wrapper answers without calling the route's handler:
\* those with a method the route is not registered with, and OPTIONS with and
\* without an Access-Control-Request-Method header.
WrapperRequests ==
  UNION {{[BaseReq(route, m) EXCEPT !.origin = o, !.id = 1, !.cid = 21] :
            m \in {"GET", "HEAD", "POST", "PUT"} \ methodsMap(route), o \in Origins} :
           route \in WrappedRoutes}
  \cup {[BaseReq(route, "OPTIONS") EXCEPT !.origin = o, !.acrm = a] :
          route \in WrappedRoutes, o \in Origins, a \in {"", "GET", "POST", "PUT"}}

\* GET and HEAD on the routes registered with GET, with and without an Origin
ActualRequests ==
  {[x EXCEPT !.origin = o, !.method = m] :
     x \in AuthzRequests \cup ChallengeGets \cup CertRequests,
     o \in Origins, m \in {"GET", "HEAD"}}

ReadRequests ==
  StaticRequests \cup AuthzRequests \cup ChallengeGets \cup CertRequests
  \cup WrapperRequests \cup ActualRequests

\* the paths no pattern but "/" matches: the root and one that is nowhere
RootPaths == {"/", "/nowhere"}

RootRequests ==
  {[BaseReq(path, m) EXCEPT !.origin = o] :
     path \in RootPaths, m \in {"GET", "HEAD", "POST", "PUT", "OPTIONS"},
     o \in {"", "https://example.com"}}

\* wfe.AllowOrigins is set from the configuration before requests are served
Configure ==
  /\ allowOrigins = <<>>
  /\ \A p \in Procs : pc[p] = "idle"
  /\ allowOrigins' \in AllowOriginLists \ {<<>>}
  /\ UNCHANGED <<nonces, issued, passed, regs, certs, authzs, now, pc, req, loc, resp,
                 logEvent, calls, audit>>

Next ==
  \/ Configure
  \/ Receive(1, ReadRequests)
  \/ ReceiveRoot(1, RootRequests)
  \/ Authorization(1)
  \/ Challenge(1)
  \/ Certificate(1)
  \/ Tick
  \/ Finish(1)

Spec == Init /\ [][Next]_vars

(* ------------------------------ properties ---------------------------- *)
\* the calls to the Authority and to the Storage
RANames ==
  {"RA.NewRegistration", "RA.UpdateRegistration", "RA.NewAuthorization",
   "RA.UpdateAuthorization", "RA.NewCertificate", "RA.RevokeCertificateWithReg"}

SANames ==
  {"SA.GetRegistrationByKey", "SA.GetAuthorization", "SA.GetCertificate",
   "SA.GetCertificateStatus"}

\* the handler of slot p has returned and its response is complete
Answered(p) == pc[p] = "done"

\* the ID of the account that owns key k, 0 if none does
AccountOf(k) ==
  IF \E i \in 1..Len(regs) : regs[i].Key = k
  THEN CHOOSE i \in 1..Len(regs) : regs[i].Key = k
  ELSE 0

\* C1: whatever the interleaving of the requests, a nonce passes the
\* verifier's nonce check at most once and a nonce that was never issued never
\* passes it: of two requests that carry the same nonce at most one gets past
\* the check, and a request the check turns down is rejected with BadNonce
\* (answered 400, type badNonce) without any call to the Authority.
C1_NonceSingleUse ==
  /\ \A n \in NonceVals : passed[n] <= 1
  /\ \A n \in NonceVals \ (1..issued) : passed[n] = 0
  /\ \A p, q \in Procs :
       (p # q /\ req[p].nonce = req[q].nonce /\ loc[p].step \in PastNonce)
         => loc[q].step \notin PastNonce
  /\ \A p \in Procs :
       loc[p].step \in PastNonce => req[p].nonce \in (1..issued) \ nonces
  /\ \A p \in Procs :
       loc[p].step \in {"nononce", "badnonce"}
         => /\ loc[p].err = "BadNonceError"
            /\ CallNames(p) \cap RANames = {}
            /\ Answered(p) => resp[p].status = 400 /\ resp[p].body.ptype = "badNonce"

\* Two requests in flight carry the same nonce: one has passed the nonce
\* check, the other has been turned down by it.
C1_Witness ==
  \E p, q \in Procs :
    /\ p # q
    /\ req[p].nonce = req[q].nonce
    /\ req[p].nonce > 0
    /\ loc[p].step = "ok"
    /\ loc[q].step = "badnonce"
    /\ passed[req[p].nonce] = 1

\* a POST whose envelope parses and does not hold exactly one signature
SignatureCountWrong(r) ==
  r.route \in PostRoutes /\ r.method = "POST" /\ r.cl /\ r.body = "jws" /\ r.sigs # 1

\* C2 as stated: on every POST endpoint a request with no signature or with
\* more than one is rejected with SignatureValidation, and no call to the
\* Storage or to the Authority has been made for it.
C2_NoCallBeforeSignatureCount ==
  \A p \in Procs :
    (pc[p] # "idle" /\ SignatureCountWrong(req[p]))
      => /\ calls[p] = <<>>
         /\ Answered(p) => loc[p].err = "SignatureValidationError" /\ resp[p].status = 400

\* C2, amended: a request with no signature or with more than one never
\* reaches the Authority. On new-reg, new-authz, new-cert, reg and revoke-cert
\* it is rejected with SignatureValidation (400) and no call to the Storage
\* has been made. On challenge the handler has first read the authorization
\* from the Storage: the request is answered 404 if that read turns the request
\* down, and otherwise rejected with SignatureValidation (400) with no
\* further call.
C2_NoCallBeforeSignatureCountAmended ==
  \A p \in Procs :
    (pc[p] # "idle" /\ SignatureCountWrong(req[p]))
      => /\ CallNames(p) \cap RANames = {}
         /\ req[p].route # "challenge"
              => /\ calls[p] = <<>>
                 /\ Answered(p) => /\ loc[p].err = "SignatureValidationError"
                                   /\ resp[p].status = 400
         /\ req[p].route = "challenge"
              => /\ calls[p] \in {<<>>, <<Call("SA.GetAuthorization", NoKey, req[p].id)>>}
                 /\ loc[p].step # "" => calls[p] # <<>>
                 /\ Answered(p)
                      => IF loc[p].step = "" THEN resp[p].status = 404
                         ELSE /\ loc[p].err = "SignatureValidationError"
                              /\ resp[p].status = 400

\* A challenge POST without a signature has been rejected with
\* SignatureValidation after the authorization was read from the Storage.
C2_Witness ==
  \E p \in Procs :
    /\ Answered(p)
    /\ req[p].route = "challenge"
    /\ SignatureCountWrong(req[p])
    /\ req[p].sigs = 0
    /\ loc[p].err = "SignatureValidationError"
    /\ calls[p] = <<Call("SA.GetAuthorization", NoKey, req[p].id)>>

\* the returns of verifyPOST that lie before its nonce check
BeforeNonce ==
  {"length", "nobody", "read", "parse", "toomany", "nosig", "nojwk", "goodkey", "lookup",
   "alg", "sig"}

\* the envelope of r fails at a step before the account lookup or at the
\* algorithm or signature step
EnvelopeFails(r) ==
  ~r.cl \/ r.body # "jws" \/ r.sigs # 1 \/ r.jwk = NoKey \/ ~r.algOK \/ ~r.sigOK

\* C3: a request that fails at the length-header, body, envelope-parse,
\* signature-count, embedded-key, account-lookup, key-quality, algorithm or
\* signature step leaves the nonce service as it was; the nonce is consumed
\* only by a request whose signature verified, and it has been consumed when
\* the payload and its resource field are examined.
C3_NonceAfterSignature ==
  \A p \in Procs :
    /\ (loc[p].step # "" /\ EnvelopeFails(req[p]))
         => loc[p].step \in BeforeNonce
    /\ loc[p].step \in BeforeNonce \cup {"nononce", "badnonce"}
         => ~loc[p].touched
    /\ loc[p].step \in PastNonce
         => /\ loc[p].touched
            /\ ~EnvelopeFails(req[p])
            /\ req[p].nonce \notin nonces

\* A request with a bad signature and a valid nonce has been rejected and its
\* nonce is still valid.
C3_Witness ==
  \E p \in Procs :
    /\ Answered(p)
    /\ ~req[p].sigOK
    /\ loc[p].step = "sig"
    /\ req[p].nonce \in nonces

\* C4: on every POST endpoint, a request whose signature verified and whose
\* nonce was valid but whose payload names no resource or another resource
\* than the endpoint's is rejected with Malformed (answered 400, type
\* malformed), and no call to the Authority is made for it.
C4_WrongResourceRejected ==
  \A p \in Procs :
    (/\ req[p].route \in PostRoutes
     /\ loc[p].touched
     /\ req[p].payload = "json"
     /\ req[p].resource # ResourceOf(req[p].route))
      => /\ loc[p].err = "MalformedRequestError"
         /\ pc[p] \in {"done", "idle"}
         /\ CallNames(p) \cap RANames = {}
         /\ Answered(p) => resp[p].status = 400 /\ resp[p].body.ptype = "malformed"

\* A verified request for another endpoint's resource has been answered 400.
C4_Witness ==
  \E p \in Procs :
    /\ Answered(p)
    /\ loc[p].touched
    /\ req[p].resource = WrongResource(req[p].route)
    /\ req[p].route = "new-cert"
    /\ resp[p].status = 400

\* a verified revocation request that names a stored certificate by its very
\* bytes, the Storage having answered that it is not revoked
RevokeDecided(p) ==
  /\ req[p].route = "revoke-cert"
  /\ loc[p].step = "ok"
  /\ SerialNumber(req[p].der) \in 1..Len(certs)
  /\ certs[SerialNumber(req[p].der)].DER = req[p].der
  /\ loc[p].certStatus.err = "nil"
  /\ loc[p].certStatus.status # OCSPStatusRevoked

\* C5: for such a request the Authority's revoke call is made if and only if
\* the requester's key is the certificate's public key or the requester's
\* account is the account the certificate was issued to; otherwise the answer
\* is 403 and no revoke call is made.
C5_RevokeIffKeyOrAccount ==
  \A p \in Procs :
    RevokeDecided(p) =>
      LET cert == certs[SerialNumber(req[p].der)]
          allowed == \/ req[p].jwk = cert.PublicKey
                     \/ AccountOf(req[p].jwk) = cert.RegistrationID
          revoked == "RA.RevokeCertificateWithReg" \in CallNames(p)
      IN /\ pc[p] = "revoke:revoke" => allowed
         /\ revoked => allowed
         /\ Answered(p) => /\ revoked <=> allowed
                           /\ ~allowed => resp[p].status = 403

\* The account the certificate was issued to, signing with a key that is not
\* the certificate's, has revoked it.
C5_Witness ==
  \E p \in Procs :
    /\ Answered(p)
    /\ RevokeDecided(p)
    /\ req[p].jwk # certs[SerialNumber(req[p].der)].PublicKey
    /\ AccountOf(req[p].jwk) = certs[SerialNumber(req[p].der)].RegistrationID
    /\ "RA.RevokeCertificateWithReg" \in CallNames(p)
    /\ resp[p].status = 200
    /\ certs[SerialNumber(req[p].der)].Status = OCSPStatusRevoked

\* C6: the update an account-update request forwards to the Authority carries
\* the stored key of the authenticated account, whatever key the payload
\* carried, and no step of an account-update request changes an account's key.
C6_UpdateKeyForced ==
  /\ [](\A p \in Procs :
          \A i \in 1..Len(calls[p]) :
            calls[p][i][1] = "RA.UpdateRegistration"
              => /\ calls[p][i][2] = req[p].jwk
                 /\ calls[p][i][3] = AccountOf(req[p].jwk)
                 /\ calls[p][i][2] = regs[calls[p][i][3]].Key)
  /\ [][\A i \in 1..Len(regs) : regs'[i].Key = regs[i].Key]_vars

\* An update whose payload carried another key has been forwarded and
\* answered 202; the account still has its key.
C6_Witness ==
  \E p \in Procs :
    /\ Answered(p)
    /\ req[p].route = "reg"
    /\ req[p].updKey \notin {NoKey, req[p].jwk}
    /\ "RA.UpdateRegistration" \in CallNames(p)
    /\ resp[p].status = 202
    /\ resp[p].body.reg.Key = req[p].jwk
    /\ regs[req[p].id].Key = req[p].jwk

\* are the internal fields of a challenge, of an authorization cleared
ChallengeCleared(ch) == ch.ID = 0 /\ ch.AccountKey = NoKey

AuthorizationCleared(a) ==
  /\ a.ID = 0
  /\ a.RegistrationID = 0
  /\ \A i \in 1..Len(a.Challenges) : ChallengeCleared(a.Challenges[i])

\* C7: the authorization or challenge that a response of new-authz, authz,
\* challenge (GET) or challenge (POST) carries has its authorization ID, its
\* account ID, its challenge ID and its account key cleared, in every
\* challenge nested in it.
C7_InternalFieldsCleared ==
  \A p \in Procs :
    /\ resp[p].body.kind = "authz" => AuthorizationCleared(resp[p].body.authz)
    /\ resp[p].body.kind = "challenge" => ChallengeCleared(resp[p].body.chall)
    /\ resp[p].body.kind \notin {"authz", "challenge"}
         => resp[p].body.authz = ZeroAuthz /\ resp[p].body.chall = ZeroChallenge

\* A new authorization with its two challenges has been returned.
C7_Witness ==
  \E p \in Procs :
    /\ Answered(p)
    /\ req[p].route = "new-authz"
    /\ resp[p].status = 201
    /\ resp[p].body.kind = "authz"
    /\ Len(resp[p].body.authz.Challenges) = 2
    /\ authzs[Len(authzs)].RegistrationID = AccountOf(req[p].jwk)
    /\ authzs[Len(authzs)].Challenges[1].AccountKey = req[p].jwk

\* C8 as stated: a verified, otherwise acceptable new-reg request signed by a
\* key that owned an account when the verifier looked it up is answered 409
\* with a Location header naming that account, and the create call is not
\* forwarded.
C8_ExistingKeyConflict ==
  \A p \in Procs :
    (/\ req[p].route = "new-reg"
     /\ loc[p].step = "ok"
     /\ loc[p].lk.err = "nil"
     /\ req[p].bodyOK /\ req[p].addrOK /\ req[p].agreement \in {"", SubscriberAgreementURL})
      => /\ "RA.NewRegistration" \notin CallNames(p)
         /\ Answered(p)
              => /\ resp[p].status = 409
                 /\ <<"Location", "reg", loc[p].lk.reg.ID>> \in resp[p].sent

\* a verified new-reg request of a key that owns no account: the verifier's
\* lookup found none and the handler's own lookup has not found one either
FreshKeyRequest(p) ==
  /\ req[p].route = "new-reg"
  /\ loc[p].step = "ok"
  /\ loc[p].lk.err = "NoSuchRegistrationError"
  /\ pc[p] \in {"new-reg:create", "done"}

AgreementAcceptable(r) == r.agreement \in {"", SubscriberAgreementURL}

Forwarded(p) == pc[p] = "new-reg:create" \/ "RA.NewRegistration" \in CallNames(p)

\* C9 as stated: such a request is forwarded to the Authority exactly when
\* its agreement is empty or the current agreement URL, otherwise it is
\* answered 400; a successful create is answered 201 with the new account's
\* Location.
C9_ForwardedIffAgreement ==
  \A p \in Procs :
    FreshKeyRequest(p)
      => /\ Forwarded(p) <=> AgreementAcceptable(req[p])
         /\ (Answered(p) /\ ~AgreementAcceptable(req[p])) => resp[p].status = 400

\* C9, amended: such a request is forwarded exactly when its payload
\* unmarshals as a registration, its agreement is empty or the current
\* agreement URL, and the client's address can be read. A payload that does
\* not unmarshal and an agreement that does not match are answered 400, an
\* address that cannot be read 500, all without a create call. A create that
\* succeeds is answered 201 with a Location header of the new account's ID.
C9_ForwardedIffAgreementAmended ==
  \A p \in Procs :
    FreshKeyRequest(p)
      => LET r == req[p]
         IN /\ Forwarded(p) <=> (r.bodyOK /\ AgreementAcceptable(r) /\ r.addrOK)
            /\ (Answered(p) /\ ~r.bodyOK) => resp[p].status = 400
            /\ (Answered(p) /\ r.bodyOK /\ ~AgreementAcceptable(r)) => resp[p].status = 400
            /\ (Answered(p) /\ r.bodyOK /\ AgreementAcceptable(r) /\ ~r.addrOK)
                 => resp[p].status = 500
            /\ (Answered(p) /\ resp[p].body.kind = "reg")
                 => /\ resp[p].status = 201
                    /\ resp[p].body.reg.ID > 0
                    /\ resp[p].body.reg = regs[resp[p].body.reg.ID]
                    /\ resp[p].body.reg.Key = r.jwk
                    /\ <<"Location", "reg", resp[p].body.reg.ID>> \in resp[p].sent

\* A fresh key has been registered with the current agreement and answered 201.
C9_Witness ==
  \E p \in Procs :
    /\ Answered(p)
    /\ FreshKeyRequest(p)
    /\ req[p].agreement = SubscriberAgreementURL
    /\ resp[p].status = 201
    /\ <<"Location", "reg", Len(regs)>> \in resp[p].sent
    /\ regs[Len(regs)].Key = req[p].jwk

\* C10 as stated: a GET of a certificate path whose serial is not valid is
\* answered 404, the no-cache Cache-Control header is among the headers of that
\* response, and no Storage lookup is made.
C10_BadSerialNoCache ==
  \A p \in Procs :
    (Answered(p) /\ req[p].route = "cert" /\ req[p].method = "GET" /\ ~req[p].pathOK)
      => /\ resp[p].status = 404
         /\ calls[p] = <<>>
         /\ <<"Cache-Control", "public, max-age=0, no-cache", 0>> \in resp[p].sent

\* a verified revocation request for which the Storage returned the record of
\* the submitted serial, byte-identical to the submitted certificate, and
\* reported its status as revoked
RevokeOfRevoked(p) ==
  /\ req[p].route = "revoke-cert"
  /\ loc[p].step = "ok"
  /\ loc[p].cert.Serial > 0
  /\ loc[p].cert.DER = req[p].der
  /\ loc[p].certStatus.err = "nil"
  /\ loc[p].certStatus.status = OCSPStatusRevoked

\* C11: a verified revocation request whose certificate is byte-identical to
\* a stored record that the Storage reports as revoked is answered 409 and no
\* revoke call is made for it; a certificate's status changes only from good
\* to revoked, and its bytes, serial and owner never change.
C11_AlreadyRevokedConflict ==
  /\ [](\A p \in Procs :
          RevokeOfRevoked(p)
            => /\ pc[p] = "done"
               /\ "RA.RevokeCertificateWithReg" \notin CallNames(p)
               /\ resp[p].status = 409
               /\ certs[SerialNumber(req[p].der)].Status = OCSPStatusRevoked)
  /\ [][/\ Len(certs') >= Len(certs)
        /\ \A i \in 1..Len(certs) :
             /\ certs'[i].Status # certs[i].Status
                  => certs[i].Status = "good" /\ certs'[i].Status = OCSPStatusRevoked
             /\ [certs'[i] EXCEPT !.Status = ""] = [certs[i] EXCEPT !.Status = ""]]_vars

\* A certificate was revoked by an earlier request; the request to revoke it
\* again has been answered 409 after the status lookup, without a revoke call.
C11_Witness ==
  \E p \in Procs :
    /\ Answered(p)
    /\ RevokeOfRevoked(p)
    /\ resp[p].status = 409
    /\ resp[p].body.ptype = "malformed"
    /\ calls[p][Len(calls[p])] = Call("SA.GetCertificateStatus", NoKey, SerialNumber(req[p].der))

\* slot p is about to read, for an authorization or challenge request, an
\* authorization whose expiry is set and strictly before the clock
AtExpired(p) ==
  /\ pc[p] \in {"authz", "challenge"}
  /\ req[p].pathOK
  /\ req[p].id \in 1..Len(authzs)
  /\ authzs[req[p].id].Expires # NoExpiry
  /\ authzs[req[p].id].Expires < now

\* C12: the step in which an authorization read, a challenge read or a
\* challenge update looks up an authorization whose expiry is strictly before
\* the clock ends the request with 404: the response carries neither an
\* authorization nor a challenge, the handler does not go on to the verifier,
\* and no update call is made.
C12_ExpiredAuthorizationNotFound ==
  [][\A p \in Procs :
       (AtExpired(p) /\ pc'[p] # pc[p])
         => /\ pc'[p] = "done"
            /\ resp'[p].status = 404
            /\ resp'[p].body.kind \notin {"authz", "challenge"}
            /\ resp'[p].body.authz = ZeroAuthz
            /\ resp'[p].body.chall = ZeroChallenge
            /\ CallNames(p)' \cap RANames = {}
            /\ authzs' = authzs]_vars

\* A challenge update on authorization 1, read from the Storage after its
\* expiry, has been answered 404 ("Expired authorization") with no call but
\* the read.
C12_Witness ==
  \E p \in Procs :
    /\ Answered(p)
    /\ req[p].route = "challenge"
    /\ req[p].method = "POST"
    /\ loc[p].authz.ID = req[p].id
    /\ loc[p].authz.Expires # NoExpiry
    /\ loc[p].authz.Expires < now
    /\ loc[p].idx # -1
    /\ resp[p].status = 404
    /\ resp[p].body.msg = "Expired authorization"
    /\ calls[p] = <<Call("SA.GetAuthorization", NoKey, req[p].id)>>

\* the handler of slot p has made its SA.GetCertificate call for a revocation
RevokeLookedUp(p) ==
  /\ req[p].route = "revoke-cert"
  /\ Call("SA.GetCertificate", NoKey, SerialNumber(req[p].der)) \in SeqRange(calls[p])

\* C13: the revoke call is made only for the certificate that the Storage
\* returned for the serial of the submitted certificate and whose stored bytes
\* are the submitted bytes; when the lookup fails or returns other bytes the
\* request is answered 404 and neither the status lookup nor the revoke call is
\* made.
C13_RevokeOnlyExactBytes ==
  \A p \in Procs :
    /\ (pc[p] \in {"revoke:status", "revoke:revoke"}
        \/ CallNames(p) \cap {"SA.GetCertificateStatus", "RA.RevokeCertificateWithReg"} # {})
         => /\ RevokeLookedUp(p)
            /\ loc[p].cert.Serial = SerialNumber(req[p].der)
            /\ loc[p].cert.DER = req[p].der
            /\ certs[loc[p].cert.Serial].DER = req[p].der
    /\ \A i \in 1..Len(calls[p]) :
         calls[p][i][1] = "RA.RevokeCertificateWithReg"
           => calls[p][i][3] = loc[p].cert.Serial
    /\ (RevokeLookedUp(p) /\ loc[p].cert.DER # req[p].der)
         => /\ pc[p] = "done"
            /\ resp[p].status = 404
            /\ calls[p][Len(calls[p])][1] = "SA.GetCertificate"

\* The Storage returned, for the serial of the submitted certificate, a record
\* with other bytes: the request has been answered 404 and the certificate is
\* not revoked.
C13_Witness ==
  \E p \in Procs :
    /\ Answered(p)
    /\ RevokeLookedUp(p)
    /\ loc[p].cert.Serial = SerialNumber(req[p].der)
    /\ loc[p].cert.DER # req[p].der
    /\ resp[p].status = 404
    /\ certs[loc[p].cert.Serial].Status = "good"
    /\ "RA.RevokeCertificateWithReg" \notin CallNames(p)

\* a verified request of an existing account on one of the endpoints that
\* ask for an agreement
NeedsAgreement(p) ==
  /\ req[p].route \in {"new-authz", "new-cert", "challenge"}
  /\ req[p].method = "POST"
  /\ loc[p].step = "ok"

\* the request of slot p has been or is about to be forwarded to the Authority
ForwardedToRA(p) ==
  \/ pc[p] \in {"new-authz:create", "new-cert:issue", "challenge:update"}
  \/ CallNames(p) \cap RANames # {}

\* nothing but the agreement stands between the request of slot p and the
\* Authority
OtherwiseAcceptable(p) ==
  /\ req[p].bodyOK
  /\ req[p].route = "new-cert" => GoodKey(req[p].csrKey)
  /\ req[p].route = "challenge" => loc[p].reg.ID = loc[p].authz.RegistrationID

\* C14: a verified new-authz, new-cert or challenge-update request of an
\* account whose stored agreement is empty is answered 403 and is not forwarded
\* to the Authority; with any non-empty agreement, the current one or not, the
\* request is not turned down for its agreement and, when nothing else is wrong
\* with it, is forwarded.
C14_AgreementBeforeAction ==
  \A p \in Procs :
    NeedsAgreement(p)
      => /\ loc[p].reg.ID \in 1..Len(regs)
         /\ loc[p].reg = regs[loc[p].reg.ID]
         /\ loc[p].reg.Agreement = ""
              => /\ pc[p] = "done"
                 /\ resp[p].status = 403
                 /\ CallNames(p) \cap RANames = {}
         /\ loc[p].reg.Agreement # ""
              => /\ resp[p].status # 403 \/ req[p].route = "challenge"
                 /\ OtherwiseAcceptable(p) => ForwardedToRA(p)

\* Account 2, which agreed to nothing, asked for a certificate with a valid
\* request and has been answered 403.
C14_Witness ==
  \E p \in Procs :
    /\ Answered(p)
    /\ NeedsAgreement(p)
    /\ req[p].route = "new-cert"
    /\ OtherwiseAcceptable(p)
    /\ regs[AccountOf(req[p].jwk)].Agreement = ""
    /\ resp[p].status = 403
    /\ calls[p] = <<Call("SA.GetRegistrationByKey", req[p].jwk, 0)>>

\* a verified challenge update
ChallengeUpdateVerified(p) ==
  /\ req[p].route = "challenge"
  /\ req[p].method = "POST"
  /\ loc[p].step = "ok"

\* C15: a verified challenge update is forwarded to the Authority only when
\* the requester's account ID is the owning account ID of the authorization
\* the URL names; when the two differ the request is answered 403 and no
\* update call is made.
C15_ChallengeUpdateOwnerOnly ==
  \A p \in Procs :
    ChallengeUpdateVerified(p)
      => /\ loc[p].authz.ID = req[p].id
         /\ loc[p].authz.RegistrationID = authzs[req[p].id].RegistrationID
         /\ loc[p].reg.ID = AccountOf(req[p].jwk)
         /\ ForwardedToRA(p) => loc[p].reg.ID = loc[p].authz.RegistrationID
         /\ loc[p].reg.ID # loc[p].authz.RegistrationID
              => /\ pc[p] = "done"
                 /\ resp[p].status = 403
                 /\ CallNames(p) \cap RANames = {}

\* Account 2, having agreed to the current agreement, asked to update a
\* challenge of account 1's authorization and has been answered 403.
C15_Witness ==
  \E p \in Procs :
    /\ Answered(p)
    /\ ChallengeUpdateVerified(p)
    /\ loc[p].reg.Agreement # ""
    /\ req[p].bodyOK
    /\ loc[p].reg.ID # authzs[req[p].id].RegistrationID
    /\ resp[p].status = 403
    /\ resp[p].body.msg = "User registration ID doesn't match registration ID in authorization"

\* a verified account update
AccountUpdateVerified(p) == req[p].route = "reg" /\ loc[p].step = "ok"

\* the account update of slot p has been or is about to be forwarded
UpdateForwarded(p) ==
  pc[p] = "reg:update" \/ "RA.UpdateRegistration" \in CallNames(p)

\* C16: a verified account update is forwarded to the Authority only when the
\* last path segment is an integer greater than zero and equal to the
\* authenticated account's ID; a segment that is no integer or not positive is
\* answered 400 and a different ID 403, without an update call.
C16_UpdateOnlyOwnID ==
  \A p \in Procs :
    AccountUpdateVerified(p)
      => LET r == req[p]
         IN /\ loc[p].reg.ID = AccountOf(r.jwk)
            /\ loc[p].reg.ID > 0
            /\ UpdateForwarded(p) => r.pathOK /\ r.id > 0 /\ r.id = loc[p].reg.ID
            /\ \A i \in 1..Len(calls[p]) :
                 calls[p][i][1] = "RA.UpdateRegistration" => calls[p][i][3] = r.id
            /\ (~r.pathOK \/ r.id <= 0)
                 => pc[p] = "done" /\ resp[p].status = 400 /\ ~UpdateForwarded(p)
            /\ (r.pathOK /\ r.id > 0 /\ r.id # loc[p].reg.ID)
                 => pc[p] = "done" /\ resp[p].status = 403 /\ ~UpdateForwarded(p)

\* Account 1 sent an acceptable update to the path of account 2, which
\* exists: the request has been answered 403 and account 2 is as it was.
C16_Witness ==
  \E p \in Procs :
    /\ Answered(p)
    /\ AccountUpdateVerified(p)
    /\ req[p].pathOK /\ req[p].bodyOK
    /\ req[p].agreement = SubscriberAgreementURL
    /\ req[p].id \in 1..Len(regs)
    /\ req[p].id # loc[p].reg.ID
    /\ resp[p].status = 403
    /\ regs[req[p].id].Agreement = ""

\* verifyPOST has returned to the handler of slot p after its account lookup
LookedUp(p) ==
  /\ req[p].route \in PostRoutes
  /\ req[p].method = "POST"
  /\ loc[p].step # ""
  /\ loc[p].lk # NoLookup

\* C17: on the endpoints that require a known account, verification succeeds
\* only if the lookup by the submitted key found an account; the key and the
\* account returned are then that account's stored key and the stored
\* account. When the lookup finds no account or fails, verification fails with
\* the lookup's error at once: the algorithm and the signature are not
\* checked, whatever they are, and the nonce service is not touched.
C17_KnownAccountRequired ==
  \A p \in Procs :
    (LookedUp(p) /\ RegCheck(req[p].route))
      => /\ loc[p].step = "ok"
              => /\ loc[p].lk.err = "nil"
                 /\ loc[p].reg = loc[p].lk.reg
                 /\ loc[p].reg.ID \in 1..Len(regs)
                 /\ loc[p].reg.ID = AccountOf(req[p].jwk)
                 /\ loc[p].key = regs[loc[p].reg.ID].Key
                 /\ logEvent[p].Requester = loc[p].reg.ID
         /\ loc[p].lk.err # "nil"
              => /\ loc[p].step = "lookup"
                 /\ loc[p].err = loc[p].lk.err
                 /\ loc[p].key = NoKey
                 /\ loc[p].verr = 1
                 /\ ~loc[p].touched
                 /\ pc[p] = "done"
                 /\ CallNames(p) \cap RANames = {}

\* A request of a key without an account, with an algorithm that does not
\* fit and a nonce that is valid, has failed at the lookup on an endpoint that
\* requires a known account; its nonce is still valid.
C17_Witness ==
  \E p \in Procs :
    /\ Answered(p)
    /\ LookedUp(p)
    /\ RegCheck(req[p].route)
    /\ AccountOf(req[p].jwk) = 0
    /\ ~req[p].algOK
    /\ req[p].nonce \in nonces
    /\ loc[p].err = "NoSuchRegistrationError"
    /\ resp[p].status = 403

\* verifyPOST has returned on an endpoint that does not require a known
\* account, its lookup having found no account for the submitted key
UnknownKeyAllowed(p) ==
  /\ LookedUp(p)
  /\ ~RegCheck(req[p].route)
  /\ loc[p].lk.err = "NoSuchRegistrationError"

\* C18: on the endpoints that do not require a known account, a submitted
\* key that owns no account is put to the key-quality policy before the
\* algorithm and the signature are checked. A key the policy rejects fails
\* the request with the policy's error, whatever the signature is, and the
\* nonce service is not touched; a key that passes is the key the signature is
\* verified with, and a successful verification returns it with the sentinel
\* account of ID 0.
C18_KeyPolicyBeforeSignature ==
  \A p \in Procs :
    UnknownKeyAllowed(p)
      => /\ ~GoodKey(req[p].jwk)
              => /\ loc[p].step = "goodkey"
                 /\ loc[p].err = "MalformedRequestError"
                 /\ loc[p].verr = 1
                 /\ ~loc[p].touched
                 /\ pc[p] = "done"
                 /\ CallNames(p) \cap RANames = {}
         /\ GoodKey(req[p].jwk) => loc[p].step \notin {"goodkey", "lookup"}
         /\ loc[p].step = "ok"
              => /\ loc[p].key = req[p].jwk
                 /\ loc[p].reg = ZeroReg
                 /\ loc[p].reg.ID = 0

\* A new-reg request of the weak key, with a signature that does not verify
\* and a valid nonce, has been rejected by the policy; its nonce is still
\* valid.
C18_Witness ==
  \E p \in Procs :
    /\ Answered(p)
    /\ UnknownKeyAllowed(p)
    /\ req[p].route = "new-reg"
    /\ ~GoodKey(req[p].jwk)
    /\ ~req[p].sigOK
    /\ req[p].nonce \in nonces
    /\ loc[p].step = "goodkey"
    /\ resp[p].status = 400

\* the verifier has returned for a POST without a Content-Length header
NoLengthVerified(p) ==
  /\ req[p].route \in PostRoutes
  /\ req[p].method = "POST"
  /\ ~req[p].cl
  /\ loc[p].step # ""

\* what C19 says of such a request but for the status: it was rejected with
\* LengthRequired before the body was read, nothing was looked up or
\* forwarded, and the response is a problem of type malformed
LengthRequiredRejected(p) ==
  /\ loc[p].step = "length"
  /\ loc[p].err = "LengthRequiredError"
  /\ loc[p].lk = NoLookup
  /\ ~loc[p].touched
  /\ pc[p] = "done"
  /\ CallNames(p) \cap (RANames \cup {"SA.GetRegistrationByKey"}) = {}
  /\ resp[p].body.kind = "problem"
  /\ resp[p].body.ptype = "malformed"

\* C19 as stated: a POST without a length-declaring header is rejected by the
\* verifier with LengthRequired before the body is read and answered with
\* status 400 and the malformed problem type.
C19_LengthRequired400 ==
  \A p \in Procs :
    NoLengthVerified(p) => LengthRequiredRejected(p) /\ resp[p].status = 400

\* C19, amended: such a request is rejected by the verifier with
\* LengthRequired before the body is read and answered with the malformed
\* problem type; the status is 411 on new-reg, new-authz, new-cert, reg and
\* revoke-cert and 400 on challenge.
C19_LengthRequired411 ==
  \A p \in Procs :
    NoLengthVerified(p)
      => /\ LengthRequiredRejected(p)
         /\ resp[p].status = IF req[p].route = "challenge" THEN 400 ELSE 411

\* A new-reg POST without a Content-Length header, whose body cannot be read,
\* has been answered 411 with the malformed problem type and without a call.
C19_Witness ==
  \E p \in Procs :
    /\ Answered(p)
    /\ NoLengthVerified(p)
    /\ req[p].route = "new-reg"
    /\ req[p].body = "unreadable"
    /\ resp[p].status = 411
    /\ resp[p].body.ptype = "malformed"
    /\ calls[p] = <<>>

\* C20 as stated: on every POST endpoint a request that the verifier rejects
\* with BadNonce is answered with status 400 and the badNonce problem type,
\* and the internal code statusBadNonce is never written as a status.
C20_BadNonceProblemType ==
  \A p \in Procs :
    /\ resp[p].status # statusBadNonce
    /\ (/\ Answered(p)
        /\ req[p].route \in PostRoutes
        /\ req[p].method = "POST"
        /\ loc[p].err = "BadNonceError")
         => /\ loc[p].step \in {"nononce", "badnonce"}
            /\ resp[p].status = 400
            /\ resp[p].body.ptype = "badNonce"

\* C21 as stated: on every POST endpoint a request that the verifier rejects
\* with an internal error (the body could not be read, or the account lookup
\* failed with an internal error) is answered with status 500 and the
\* serverInternal problem type, and an audit-log entry is written for it.
C21_InternalErrorAudited ==
  \A p \in Procs :
    (/\ Answered(p)
     /\ req[p].route \in PostRoutes
     /\ req[p].method = "POST"
     /\ loc[p].err = "InternalServerError"
     /\ loc[p].step \in {"read", "lookup"})
      => /\ resp[p].status = 500
         /\ resp[p].body.ptype = "serverInternal"
         /\ audit[p] = <<malformedJWS>>

\* the request of slot p has a method that is neither OPTIONS nor one the
\* route accepts
MethodRefused(p) ==
  /\ pc[p] # "idle"
  /\ req[p].route \in WrappedRoutes
  /\ req[p].method # "OPTIONS"
  /\ req[p].method \notin methodsMap(req[p].route)

\* the route's handler has done nothing for the request of slot p: no step
\* of the verifier, no nonce handed to the nonce service, no backend call
HandlerNotInvoked(p) ==
  /\ pc[p] = "done"
  /\ loc[p] = ZeroLoc
  /\ calls[p] = <<>>
  /\ logEvent[p].Requester = 0

\* C22: a request to a wrapped route whose method is neither OPTIONS nor in
\* the route's allowed set (HEAD being allowed wherever GET is) is answered 405
\* with an Allow header that lists the allowed methods, and the route's handler
\* is not invoked.
C22_MethodNotAllowed ==
  /\ \A route \in WrappedRoutes :
       "GET" \in SeqRange(Methods(route)) => "HEAD" \in methodsMap(route)
  /\ \A p \in Procs :
       MethodRefused(p)
         => /\ HandlerNotInvoked(p)
            /\ resp[p].status = 405
            /\ <<"Allow", methodsStr(req[p].route), 0>> \in resp[p].sent
            /\ req[p].method # "HEAD" => resp[p].body.ptype = "malformed"
            /\ \A h \in resp[p].sent : h[1] \in {"Allow", "Content-Type", "Replay-Nonce"}

\* A GET of new-reg has been answered 405 with Allow: POST.
C22_Witness ==
  \E p \in Procs :
    /\ MethodRefused(p)
    /\ req[p].route = "new-reg"
    /\ req[p].method = "GET"
    /\ resp[p].status = 405
    /\ <<"Allow", "POST", 0>> \in resp[p].sent

\* an OPTIONS request to a wrapped route has been answered
OptionsAnswered(p) ==
  /\ pc[p] # "idle"
  /\ req[p].route \in WrappedRoutes
  /\ req[p].method = "OPTIONS"

\* the CORS headers of the response of slot p
CORSHeaders(p) ==
  {h \in resp[p].sent :
     h[1] \in {"Vary", "Access-Control-Allow-Origin", "Access-Control-Allow-Methods",
               "Access-Control-Expose-Headers", "Access-Control-Max-Age"}}

\* the Origin header of r is present and on the allow-list
OriginAllowed(r) ==
  /\ r.origin # ""
  /\ \E i \in 1..Len(allowOrigins) : allowOrigins[i] \in {"*", r.origin}

\* the method Options takes as the requested one
RequestedMethod(r) == IF r.acrm = "" THEN "GET" ELSE r.acrm

\* C23 as stated: an OPTIONS request to a wrapped route is answered with an
\* Allow header and the route's handler is not invoked; CORS headers are on the
\* response only when the Origin header matches the allow-list and the request
\* carries a requested method that is in the route's allowed set.
C23_PreflightCarriesMethod ==
  \A p \in Procs :
    OptionsAnswered(p)
      => /\ HandlerNotInvoked(p)
         /\ <<"Allow", methodsStr(req[p].route), 0>> \in resp[p].sent
         /\ CORSHeaders(p) # {}
              => /\ OriginAllowed(req[p])
                 /\ req[p].acrm # ""
                 /\ req[p].acrm \in methodsMap(req[p].route)

\* C23, amended: an OPTIONS request to a wrapped route is answered 200 with
\* an Allow header and the route's handler is not invoked; CORS headers are on
\* the response exactly when the Origin header matches the allow-list and the
\* requested method, which is GET when the request names none, is in the
\* route's allowed set.
C23_PreflightDefaultsToGet ==
  \A p \in Procs :
    OptionsAnswered(p)
      => /\ HandlerNotInvoked(p)
         /\ resp[p].status = 200
         /\ resp[p].body = NoBody
         /\ <<"Allow", methodsStr(req[p].route), 0>> \in resp[p].sent
         /\ CORSHeaders(p) # {}
              <=> /\ OriginAllowed(req[p])
                  /\ RequestedMethod(req[p]) \in methodsMap(req[p].route)
         /\ CORSHeaders(p) # {}
              => /\ <<"Access-Control-Allow-Methods", methodsStr(req[p].route), 0>>
                      \in resp[p].sent
                 /\ \E h \in resp[p].sent :
                      /\ h[1] = "Access-Control-Allow-Origin"
                      /\ h[2] \in {"*", req[p].origin}

\* A preflight for POST on new-reg from an origin on the allow-list has been
\* answered with the CORS headers.
C23_Witness ==
  \E p \in Procs :
    /\ OptionsAnswered(p)
    /\ req[p].route = "new-reg"
    /\ req[p].acrm = "POST"
    /\ allowOrigins = <<"https://example.com">>
    /\ <<"Access-Control-Allow-Origin", "https://example.com", 0>> \in resp[p].sent
    /\ <<"Access-Control-Allow-Methods", "POST", 0>> \in resp[p].sent
    /\ <<"Vary", "Origin", 0>> \in resp[p].sent

\* the GET request that differs from r in its method only
GetTwin(r) == [r EXCEPT !.method = "GET"]

\* what a HEAD response is if it is the GET response w without its body
WithoutBody(w) == [w EXCEPT !.body = NoBody, !.bodyless = TRUE]

\* the response a step leaves in the slot
Left(s) == IF s.next = "done" THEN Complete(s.c.w) ELSE s.c.w

\* the context of slot p, had the request been the GET twin
GetCx(p) == Ctx([resp[p] EXCEPT !.bodyless = FALSE], logEvent[p], audit[p])

\* slot p's step ended at next with the response of GET step g, less its body
LikeGet(p, g) ==
  /\ pc'[p] = g.next
  /\ resp'[p] = WithoutBody(Left(g))
  /\ logEvent'[p] = g.c.ev
  /\ audit'[p] = g.c.au

\* a HEAD request arrives: the wrapper does what it does for the GET twin
HeadReceivedLikeGet(p) ==
  pc[p] = "idle" /\ pc'[p] # "idle" /\ req'[p].method = "HEAD"
  /\ req'[p].route \in WrappedRoutes
    => LET w0 == IF issued' > issued
                 THEN HeaderSet(NewWriter, "Replay-Nonce", "", issued')
                 ELSE NewWriter
       IN LikeGet(p, HandleFunc(Ctx(w0, NewEvent, <<>>), GetTwin(req'[p]), allowOrigins))

\* the handler of a HEAD request goes on: it does what it does for the GET twin
HeadHandledLikeGet(p) ==
  pc[p] \in {"authz", "challenge", "cert"} /\ pc'[p] # pc[p] /\ req[p].method = "HEAD"
    => CASE pc[p] = "authz" ->
              \E res \in GetAuthorization(authzs, req[p].id) :
                LikeGet(p, AuthorizationReply(GetCx(p), res, now))
         [] pc[p] = "challenge" ->
              IF ~req[p].pathOK THEN LikeGet(p, Step(notFound(GetCx(p)), "done"))
              ELSE \E res \in GetAuthorization(authzs, req[p].id) :
                     LikeGet(p, ChallengeFound(GetCx(p), GetTwin(req[p]), res, now))
         [] OTHER ->
              IF ~req[p].pathOK THEN LikeGet(p, Step(CertificateBadSerial(GetCx(p)), "done"))
              ELSE \E res \in GetCertificate(certs, req[p].id) :
                     LikeGet(p, Step(CertificateReply(GetCx(p), res), "done"))

\* C24: every route registered with GET accepts HEAD; a HEAD request is
\* handled by the same handler as the GET request that differs from it in the
\* method only, and at every step its response has the status and the headers
\* of that GET request's response and no body; no response to a HEAD request,
\* the 405 included, has a body.
C24_HeadIsGetWithoutBody ==
  /\ [](\A p \in Procs :
          /\ req[p].method = "HEAD" /\ req[p].route \in WrappedRoutes
               => resp[p].body = NoBody
          /\ req[p].method = "HEAD" /\ "GET" \in methodsMap(req[p].route)
               => ~MethodRefused(p))
  /\ [][\A p \in Procs : HeadReceivedLikeGet(p) /\ HeadHandledLikeGet(p)]_vars

\* A HEAD request for an authorization that was found has been answered, where
\* GET writes the authorization as the body.
C24_Witness ==
  \E p \in Procs :
    /\ pc[p] = "done"
    /\ req[p].method = "HEAD"
    /\ req[p].route = "authz"
    /\ resp[p].body = NoBody
    /\ resp[p].status = 200
    /\ <<"Content-Type", "application/json", 0>> \in resp[p].sent
    /\ <<"Link", "next", 0>> \in resp[p].sent

\* the Replay-Nonce headers in a header map
ReplayNonce(hdr) == {h \in hdr : h[1] = "Replay-Nonce"}

\* the writer w with the Replay-Nonce header taken out
LessNonce(w) == [w EXCEPT !.hdr = @ \ ReplayNonce(@), !.sent = @ \ ReplayNonce(@)]

\* A request arrives in slot p. If the nonce service gives a nonce, it is one
\* that was never given before, it becomes valid and it is the Replay-Nonce
\* header; if not, there is no such header. Either way the wrapper goes on as
\* it does with a writer that has no header at all.
NonceAtReceive(p) ==
  pc[p] = "idle" /\ pc'[p] # "idle"
    => LET g == HandleFunc(Ctx(NewWriter, NewEvent, <<>>), req'[p], allowOrigins)
       IN /\ pc'[p] = g.next
          /\ LessNonce(resp'[p]) = Left(g)
          /\ logEvent'[p] = g.c.ev
          /\ audit'[p] = g.c.au
          /\ IF issued' # issued
             THEN /\ issued' = issued + 1
                  /\ issued' \notin nonces
                  /\ passed[issued'] = 0
                  /\ nonces' = nonces \cup {issued'}
                  /\ ReplayNonce(resp'[p].hdr) = {<<"Replay-Nonce", "", issued'>>}
             ELSE /\ nonces' = nonces
                  /\ ReplayNonce(resp'[p].hdr) = {}

\* no later step of the request changes the header
NonceKept(p) ==
  pc[p] # "idle" /\ pc'[p] # "idle"
    => ReplayNonce(resp'[p].hdr) = ReplayNonce(resp[p].hdr)

\* C25: whatever the method of a request to a wrapped route and whatever
\* becomes of it, the wrapper asks for a nonce; a nonce it gets is fresh and
\* is the Replay-Nonce header of the response, no nonce leaves the request
\* handled the same without that header; every nonce handed out passes the
\* verifier's nonce check at most once.
C25_NonceOnEveryResponse ==
  /\ [](/\ \A n \in NonceVals : passed[n] <= 1
        /\ \A n \in NonceVals \ (1..issued) : passed[n] = 0
        /\ \A p \in Procs :
             resp[p].status # 0
               => ReplayNonce(resp[p].sent) = ReplayNonce(resp[p].hdr)
        /\ \A p, q \in Procs :
             p # q /\ ReplayNonce(resp[p].hdr) # {}
               => ReplayNonce(resp[p].hdr) # ReplayNonce(resp[q].hdr))
  /\ [][\A p \in Procs : NonceAtReceive(p) /\ NonceKept(p)]_vars

\* The response to a request that is not a POST carries a nonce, and a POST
\* that carries this nonce has passed the nonce check with it.
C25_Witness ==
  \E p, q \in Procs, n \in 1..MaxNonce :
    /\ p # q
    /\ pc[p] = "done"
    /\ req[p].method \in {"GET", "HEAD", "OPTIONS"}
    /\ <<"Replay-Nonce", "", n>> \in resp[p].sent
    /\ req[q].method = "POST"
    /\ req[q].nonce = n
    /\ loc[q].step = "ok"
    /\ passed[n] = 1

\* a request served by the handler of "/" is in slot p
RootServed(p) == pc[p] # "idle" /\ req[p].route \in RootPaths

\* C26: the handler of "/" is not wrapped. It answers a path other than "/"
\* with 404 whatever the method, never 405, and "/" itself with 405 and
\* Allow: GET when the method is not GET; no nonce is issued for the requests
\* it serves and none is on its responses.
C26_RootRouteUnwrapped ==
  /\ [](\A p \in Procs :
          RootServed(p)
            => /\ pc[p] = "done"
               /\ HandlerNotInvoked(p)
               /\ ReplayNonce(resp[p].hdr) = {}
               /\ req[p].route # "/"
                    => /\ resp[p].status = 404
                       /\ resp[p].body.kind = "text"
                       /\ logEvent[p].Errors = <<"Resource not found">>
               /\ req[p].route = "/" /\ req[p].method # "GET"
                    => /\ resp[p].status = 405
                       /\ <<"Allow", "GET", 0>> \in resp[p].sent
                       /\ resp[p].body = NoBody
               /\ req[p].route = "/" /\ req[p].method = "GET"
                    => /\ resp[p].status = 200
                       /\ resp[p].body.kind = "index")
  /\ [][\A p \in Procs :
          pc[p] = "idle" /\ pc'[p] # "idle" /\ req'[p].route \in RootPaths
            => issued' = issued /\ nonces' = nonces]_vars

\* A POST to a path that matches no route has been answered 404 while the
\* nonce service could still have issued a nonce.
C26_Witness ==
  \E p \in Procs :
    /\ RootServed(p)
    /\ req[p].route = "/nowhere"
    /\ req[p].method = "POST"
    /\ resp[p].status = 404
    /\ issued < MaxNonce

\* the account update of slot p is verified, addressed to the requester's own
\* account, parses, and names an agreement
UpdateNamesAgreement(p) ==
  /\ Answered(p)
  /\ AccountUpdateVerified(p)
  /\ req[p].pathOK /\ req[p].id = loc[p].reg.ID
  /\ req[p].bodyOK
  /\ req[p].agreement # ""

\* C27: an account update that names an agreement is forwarded to the
\* Authority when the agreement is the canonical URL or the one stored on the
\* account; it is answered 400 and not forwarded only when it is neither.
C27_AgreementCanonicalOrUnchanged ==
  \A p \in Procs :
    UpdateNamesAgreement(p)
      => LET ok == \/ req[p].agreement = SubscriberAgreementURL
                   \/ req[p].agreement = loc[p].reg.Agreement
         IN /\ ok => "RA.UpdateRegistration" \in CallNames(p)
            /\ ~ok => resp[p].status = 400 /\ "RA.UpdateRegistration" \notin CallNames(p)

\* the steps at which verifyPOST fails to bind the payload to the resource
BindingFails == {"payload", "noresource", "resource"}

\* verifyPOST has returned to the handler of slot p from its nonce check or
\* from a later point
AtNonceCheck(p) == loc[p].step \in {"nononce", "badnonce"} \cup PastNonce

\* C28: a request that is validly signed and carries a valid nonce, and
\* whose payload is no JSON, names no resource or names another endpoint's,
\* has consumed its nonce: it is rejected without a call to the Authority,
\* the nonce is not valid afterwards and never becomes valid again, and every
\* request that comes to the nonce check with a nonce that is not valid,
\* this one included, fails there with BadNonce.
C28_NonceConsumedOnBindingFailure ==
  /\ [](\A p \in Procs :
          loc[p].step \in BindingFails
            => /\ req[p].nonce \in (1..issued) \ nonces
               /\ passed[req[p].nonce] = 1
               /\ loc[p].touched
               /\ loc[p].err \in {"SignatureValidationError", "MalformedRequestError"}
               /\ CallNames(p) \cap RANames = {}
               /\ Answered(p) => resp[p].status = 400)
  /\ [][/\ (1..issued) \ nonces \subseteq (1..issued') \ nonces'
        /\ \A p \in Procs :
             pc[p] = "verify" /\ pc'[p] # "verify" /\ AtNonceCheck(p)'
             /\ req[p].nonce \notin nonces
               => loc'[p].err = "BadNonceError" /\ nonces' = nonces]_vars

\* A request whose payload names another endpoint's resource went through
\* the nonce check with nonce n; a second request in flight that carries n
\* has failed the nonce check.
C28_Witness ==
  \E p, q \in Procs :
    /\ p # q
    /\ loc[p].step = "resource"
    /\ req[q].nonce = req[p].nonce
    /\ loc[q].step = "badnonce"
    /\ loc[q].err = "BadNonceError"
    /\ Answered(q)
    /\ resp[q].body.ptype = "badNonce"

\* verifyPOST has returned an error to the handler of slot p
VerifierFailed(p) ==
  /\ req[p].route \in PostRoutes
  /\ req[p].method = "POST"
  /\ loc[p].step \notin {"", "ok"}

\* C29: whenever the verifier has returned an error, it has added at least
\* one entry to the request's event before returning, at each of its failure
\* points.
C29_EveryFailureRecorded ==
  \A p \in Procs : VerifierFailed(p) => loc[p].verr >= 1

\* the handler of slot p has answered an error of verifyPOST: the detail it
\* passed to sendError is that error, loc[p].err
VerifierErrorSent(p) ==
  /\ Answered(p)
  /\ VerifierFailed(p)
  /\ resp[p].body.kind = "problem"

\* C30: the detail passed to sendError is part of the client's message
\* exactly when the problem type is not server-internal and
\* statusCodeFromError of the detail is not 500; a server-internal problem
\* never has the detail in its message and is the last entry written to the
\* audit log, and no other problem is written there.
C30_DetailOnlyIfNotInternal ==
  \A p \in Procs :
    /\ VerifierErrorSent(p)
         => (resp[p].body.detail
               <=> /\ resp[p].body.ptype # "serverInternal"
                   /\ statusCodeFromError(loc[p].err) # 500)
    /\ (Answered(p) /\ resp[p].body.kind = "problem")
         => IF resp[p].body.ptype = "serverInternal"
            THEN /\ ~resp[p].body.detail
                 /\ audit[p] # <<>>
                 /\ audit[p][Len(audit[p])] = resp[p].body.msg
            ELSE resp[p].body.msg \notin SeqRange(audit[p])

\* An account update signed with a key that has no account has been answered
\* 403: the problem is not server-internal, but the detail, the lookup's
\* error, classifies as 500 and is not in the message.
C30_Witness ==
  \E p \in Procs :
    /\ VerifierErrorSent(p)
    /\ req[p].route = "reg"
    /\ loc[p].err = "NoSuchRegistrationError"
    /\ resp[p].status = 403
    /\ resp[p].body.ptype = "unauthorized"
    /\ ~resp[p].body.detail
    /\ audit[p] = <<>>

\* the challenge update of slot p has been forwarded to the Authority
ChallengeUpdateForwarded(p) ==
  /\ req[p].route = "challenge"
  /\ req[p].method = "POST"
  /\ "RA.UpdateAuthorization" \in CallNames(p)

\* C31: a challenge update forwards the index at which the challenge ID of
\* the URL stands in the authorization's challenge list, and its response is
\* built from the element at that index of the authorization the Authority
\* returned: as the Authority keeps the challenges in order, the Location
\* URI names the authorization ID and the challenge ID of the request URL.
C31_ChallengeIndexStable ==
  \A p \in Procs :
    ChallengeUpdateForwarded(p)
      => LET r == req[p]
             authz == loc[p].authz
             idx == loc[p].idx
         IN /\ authz.ID = r.id
            /\ idx \in 1..Len(authz.Challenges)
            /\ idx = FindChallenge(authz, r.cid)
            /\ authz.Challenges[idx].ID = r.cid
            /\ \A i \in 1..Len(calls[p]) :
                 calls[p][i][1] = "RA.UpdateAuthorization" => calls[p][i][3] = idx
            /\ resp[p].status = 202
                 => /\ resp[p].body.kind = "challenge"
                    /\ resp[p].body.chall
                         = prepChallengeForDisplay(authz, authzs[r.id].Challenges[idx])
                    /\ resp[p].body.chall.URI = <<r.id, r.cid>>
                    /\ {h \in resp[p].sent : h[1] = "Location"}
                         = {<<"Location", "challenge", r.id * 100 + r.cid>>}
                    /\ <<"Link", "up", r.id>> \in resp[p].sent

\* The update of challenge 11, the second in the list of authorization 1,
\* has been forwarded with index 2 and answered 202.
C31_Witness ==
  \E p \in Procs :
    /\ ChallengeUpdateForwarded(p)
    /\ req[p].id = 1
    /\ req[p].cid = 11
    /\ loc[p].idx = 2
    /\ resp[p].status = 202
    /\ <<"Location", "challenge", 111>> \in resp[p].sent
    /\ authzs[1].Challenges[2].Status = "processing"

\* the revocation of slot p has been answered 200: its call to the Authority
\* was made and succeeded
RevokedBy(p) ==
  /\ req[p].route = "revoke-cert"
  /\ Answered(p)
  /\ resp[p].status = 200
  /\ "RA.RevokeCertificateWithReg" \in CallNames(p)

\* C32: of the authorized revocations in flight that name the same stored
\* certificate, at most one makes the Authority's revoke call with success,
\* and at the moment a revoke call is made the certificate is not revoked:
\* the already-revoked check and the call are one step for other requests.
C32_RevokeAtMostOnce ==
  /\ [](\A p, q \in Procs :
          (p # q /\ RevokedBy(p) /\ RevokedBy(q)) => req[p].der # req[q].der)
  /\ [][\A p \in Procs :
          pc[p] = "revoke:revoke" /\ pc'[p] # "revoke:revoke"
            => certs[SerialNumber(loc[p].cert.DER)].Status # OCSPStatusRevoked]_vars

\* slot p has found no account of the key and is about to forward the
\* creation of one to the Authority
CreatePending(p) == req[p].route = "new-reg" /\ pc[p] = "new-reg:create"

\* C33: of the new-reg requests in flight that are signed by the same key,
\* at most one at a time is between finding no account of the key and
\* forwarding the create call to the Authority, and at the moment a create
\* call is forwarded the key owns no account.
C33_CreateAtMostOnce ==
  /\ [](\A p, q \in Procs :
          (p # q /\ CreatePending(p) /\ CreatePending(q)) => loc[p].key # loc[q].key)
  /\ [][\A p \in Procs :
          CreatePending(p) /\ pc'[p] # "new-reg:create"
            => AccountOf(loc[p].key) = 0]_vars


\* A revoke request whose signature was accepted, signed by a key that owns no
\* registration and is not the public key of the stored certificate it names.
RevokeByStranger(p) ==
  /\ req[p].route = "revoke-cert"
  /\ loc[p].step = "ok"
  /\ SerialNumber(req[p].der) \in 1..Len(certs)
  /\ certs[SerialNumber(req[p].der)].DER = req[p].der
  /\ AccountOf(req[p].jwk) = 0
  /\ req[p].jwk # certs[SerialNumber(req[p].der)].PublicKey

\* C34: a requester with no registration whose signing key is not the
\* certificate's public key is never authorized to revoke, whatever the
\* stored certificate, one recorded for registration 0 included: the request
\* never reaches the Authority's revoke call and the certificate's status is
\* not changed by it.
C34_StrangerNeverRevokes ==
  \A p \in Procs :
    RevokeByStranger(p) =>
      /\ pc[p] # "revoke:revoke"
      /\ "RA.RevokeCertificateWithReg" \notin CallNames(p)


\* An authorization read, a challenge read or a challenge update is about to
\* look up a stored authorization that has no expiry.
AtUnsetExpiry(p) ==
  /\ pc[p] \in {"authz", "challenge"}
  /\ req[p].pathOK
  /\ req[p].id \in 1..Len(authzs)
  /\ authzs[req[p].id].Expires = NoExpiry

\* C35: the step in which an authorization read, a challenge read or a
\* challenge update looks up a stored authorization with no expiry ends the
\* request normally with 404, as for an expiry in the past: the handler does
\* not fail while it builds the response.
C35_UnsetExpiryNotFound ==
  [][\A p \in Procs :
       (AtUnsetExpiry(p) /\ pc'[p] # pc[p])
         => /\ pc'[p] = "done"
            /\ resp'[p].status = 404]_vars


\* A challenge update is about to be routed, and its path is malformed, or
\* names an authorization the Storage does not hold, or one whose expiry is
\* before the clock, or a challenge ID the authorization does not have.
UpdateAddressesNothing(p) ==
  /\ pc[p] = "challenge"
  /\ req[p].method = "POST"
  /\ \/ ~req[p].pathOK
     \/ req[p].id \notin 1..Len(authzs)
     \/ /\ authzs[req[p].id].Expires # NoExpiry
        /\ \/ authzs[req[p].id].Expires < now
           \/ FindChallenge(authzs[req[p].id], req[p].cid) = -1

\* C36: the step that routes such a challenge update ends it with 404 before
\* verifyPOST has run: no signature was checked, no account was looked up, no
\* nonce was consumed (the valid nonces and the count of passes are as
\* before), and nothing of the request is left to run. Nor does any step at
\* the routing of a challenge request touch the nonces.
C36_NotFoundBeforeVerification ==
  [][\A p \in Procs :
       /\ (UpdateAddressesNothing(p) /\ pc'[p] # pc[p])
            => /\ pc'[p] = "done"
               /\ resp'[p].status = 404
               /\ loc'[p].step = ""
               /\ loc'[p].key = NoKey
               /\ ~loc'[p].touched
               /\ "SA.GetRegistrationByKey" \notin CallNames(p)'
               /\ CallNames(p)' \cap RANames = {}
               /\ nonces' = nonces
               /\ passed' = passed
       /\ (pc[p] = "challenge" /\ pc'[p] # pc[p])
            => nonces' = nonces /\ passed' = passed]_vars

\* A validly signed update of a challenge that authorization 1, not expired,
\* does not have was answered 404 with the nonce it carried still valid and
\* never passed through the nonce check.
C36_Witness ==
  \E p \in Procs :
    /\ Answered(p)
    /\ req[p].route = "challenge"
    /\ req[p].method = "POST"
    /\ req[p].pathOK /\ req[p].cl /\ req[p].body = "jws" /\ req[p].sigs = 1
    /\ req[p].sigOK /\ req[p].algOK
    /\ req[p].jwk = "kA"
    /\ loc[p].authz.ID = 1
    /\ loc[p].authz.Expires >= now
    /\ loc[p].idx = -1
    /\ resp[p].status = 404
    /\ loc[p].step = ""
    /\ req[p].nonce \in nonces
    /\ passed[req[p].nonce] = 0

====
